---- MODULE Spec2Model ----
(***************************************************************************)
(* Value-semantic type-erased Shape of the C++ Software Design training:   *)
(*   SBO_1 : Solutions/.../Type_Erasure/TypeErasure_SBO_1.cpp, the Shape   *)
(*           that keeps its Model in an inline 128-byte buffer;            *)
(*   TE_2  : Solutions/.../Type_Erasure/TypeErasure_2.cpp, the Shape that  *)
(*           owns its Model through std::unique_ptr<Concept>.              *)
(*   TE_1  : Tasks/.../Type_Erasure/TypeErasure_1.cpp, the copyable Shape  *)
(*           with a draw strategy and a std::unique_ptr<ShapeConcept>.     *)
(* One behaviour of Spec runs one of the programs (variable program).      *)
(* Every action is one whole special member function or one whole call of  *)
(* serialize()/free_draw().                                                *)
(* The other design-pattern programs of the repository (Strategy,          *)
(* Prototype, Pimpl) have specifications of their own further down; their  *)
(* objects live in dynamic storage (heap) and are reached through the      *)
(* owning pointers of the program (pimpl_).                                *)
(***************************************************************************)
EXTENDS Integers, Sequences, FiniteSets, TLC

VARIABLES
    program,   \* which translation unit's Shape the behaviour runs
    life,      \* per Shape object: Uninitialized / Alive / Destroyed
    buf,       \* SBO_1: what the object's byte buffer holds
    pimpl_,    \* TE_2, TE_1: the unique_ptr of each Shape (0 = nullptr); in the
               \* other programs the owning pointer number b of the program
    heap,      \* the objects living in dynamic storage, by address
    last,      \* the last function executed: what the caller saw, and
               \* the Model constructor/destructor and new/delete calls it made
    cnt        \* instrumentation: Models constructed and not yet destroyed,
               \* blocks allocated and not yet released

vars == <<program, life, buf, pimpl_, heap, last, cnt>>

(***************************************************************************)
(* Bounds of the model.                                                    *)
(***************************************************************************)
NBoxes == 3

Boxes == 1 .. NBoxes
Addrs == 1 .. (2 * NBoxes)
Null == 0

(***************************************************************************)
(* Shapes and strategies (the payload of a Model).                         *)
(***************************************************************************)
Circle(r) == [type |-> "Circle", val |-> r, cx |-> 0, cy |-> 0]
Square(s) == [type |-> "Square", val |-> s, cx |-> 0, cy |-> 0]

\* sizeof / alignof of the shape classes: a double and a Point of two doubles
SizeofShape(shape) == 24
AlignofShape(shape) == 8

\* Draw strategies.  GLDrawer is the class of the source; "lambda<n>" is a
\* closure like lambda_drawer of main that captures n bytes (8-aligned),
\* "lambda<n>_a<k>" one whose n captured bytes are k-aligned.
SizeofDrawer(d) ==
    CASE d = "GLDrawer_green" -> 4
      [] d = "lambda80_a16"   -> 80
      [] d = "lambda96"       -> 96
      [] d = "lambda216"      -> 216
      [] d = "lambda32_a32"   -> 32

AlignofDrawer(d) ==
    CASE d = "GLDrawer_green" -> 4
      [] d = "lambda80_a16"   -> 16
      [] d = "lambda32_a32"   -> 32
      [] OTHER                -> 8

\* gl::to_string( Color )
GlToString(color) ==
    CASE color = "green" -> "green (0x00FF00)"
      [] color = "red"   -> "red (0xFF0000)"
      [] color = "blue"  -> "blue (0x0000FF)"
      [] OTHER           -> "unknown"

NoRet == [fn |-> "none", type |-> "-", val |-> 0, cx |-> 0, cy |-> 0, color |-> "-"]

\* What a draw strategy writes to std::cout when called with the shape.
ShapeWord(shape) == IF shape.type = "Circle" THEN "circle: radius=" ELSE "square: side="

CallDrawer(d, shape) ==
    [fn |-> "cout", type |-> ShapeWord(shape), val |-> shape.val, cx |-> 0, cy |-> 0,
     color |-> IF d = "GLDrawer_green" THEN GlToString("green")
               ELSE GlToString("red")]

\* typeid(T).hash_code(): one value per type
HashCode(type) == IF type = "Circle" THEN "hash(Circle)" ELSE "hash(Square)"

\* FSSerializer::operator(): hash code, radius/side, center.x, center.y
CallSerializer(s, shape) ==
    [fn |-> "bytes", type |-> HashCode(shape.type), val |-> shape.val,
     cx |-> shape.cx, cy |-> shape.cy, color |-> "-"]

(***************************************************************************)
(* Model<ShapeT,DrawStrategy,SerializationStrategy>                        *)
(***************************************************************************)
\* Model::Model: the three members are copy-initialised from the arguments
Model(shape, drawer, serializer) ==
    [shape_ |-> shape, drawer_ |-> drawer, serializer_ |-> serializer]

NoModel == Model([type |-> "-", val |-> 0, cx |-> 0, cy |-> 0], "-", "-")

\* do_serialize that hands the serializer a Circle whatever the shape is
do_serialize_Sliced(m) == CallSerializer(m.serializer_, Circle(m.shape_.val))

\* Model::do_draw / Model::do_serialize
do_draw(m) == CallDrawer(m.drawer_, m.shape_)
do_serialize(m) == CallSerializer(m.serializer_, m.shape_)

AlignUp(n, a) == ((n + a - 1) \div a) * a
Max(a, b) == IF a >= b THEN a ELSE b

\* alignof / sizeof of Model: the vptr of Concept, then shape_, drawer_ and
\* serializer_ (an empty class, one byte) in declaration order
VptrSize == 8
AlignofModel(shape, drawer) ==
    Max(VptrSize, Max(AlignofShape(shape), AlignofDrawer(drawer)))

SizeofModel(shape, drawer) ==
    LET offShape  == AlignUp(VptrSize, AlignofShape(shape))
        offDrawer == AlignUp(offShape + SizeofShape(shape), AlignofDrawer(drawer))
        offSer    == offDrawer + SizeofDrawer(drawer)
    IN  AlignUp(offSer + 1, AlignofModel(shape, drawer))

\* Shape::buffersize, Shape::alignment
buffersize == 128
alignment == 16

\* a layout that puts the Concept base behind the members of the Model
ConceptOffset_Last(m) == SizeofModel(m.shape_, m.drawer_) - VptrSize

\* The offset of the Concept base in Model m.  The language leaves it open;
\* the compilers the code is built with put the polymorphic base (the vptr
\* of SizeofModel's layout) first.
ConceptOffset(m) == 0

\* buffer.data() of Shape b; the Shapes are 128 bytes each, 16-aligned
BufferAddr(b) == b * buffersize

\* Concept* pimpl(): the buffer's address viewed as a Concept*
pimpl(b) == BufferAddr(b)

\* static_cast<Concept*>( model ) for the Model m placed in the buffer of b
ConceptAt(b, m) == BufferAddr(b) + ConceptOffset(m)

\* assert( static_cast<Concept*>(model) == pimpl() )
AssertHolds(b, m) == ConceptAt(b, m) = pimpl(b)

\* the static_asserts with the limits themselves excluded
StaticAssertsHold_Strict(shape, drawer) ==
    /\ SizeofModel(shape, drawer) < buffersize
    /\ AlignofModel(shape, drawer) < alignment

\* the two static_asserts of the templated constructor
StaticAssertsHold(shape, drawer) ==
    /\ SizeofModel(shape, drawer) <= buffersize
    /\ AlignofModel(shape, drawer) <= alignment

\* The constructor calls the model explores: two kinds of main (a Square with
\* a GLDrawer, a Circle with a capturing lambda), the closure being one whose
\* Model is exactly at both limits of the buffer (128 bytes, 16-aligned), and
\* closures whose Model is over the size limit (136 and 256 bytes) or over
\* the alignment limit (96 bytes, 32-aligned).
ConstructInputs ==
    { <<Square(12), "GLDrawer_green", "FSSerializer">>,
      <<Circle(41), "lambda80_a16", "FSSerializer">>,
      <<Circle(41), "lambda96", "FSSerializer">>,
      <<Circle(41), "lambda216", "FSSerializer">>,
      <<Circle(41), "lambda32_a32", "FSSerializer">> }

(***************************************************************************)
(* The inline buffer.  A cell is what the bytes hold: "raw" (no object was *)
(* ever placed), "live" (a Model within its lifetime), "dead" (a Model     *)
(* whose destructor has run; the stale bytes are still there) or "garbage" *)
(* (bytes written by an operation that had undefined behaviour).           *)
(***************************************************************************)
Raw == [st |-> "raw", m |-> NoModel]
Live(m) == [st |-> "live", m |-> m]
Dead(m) == [st |-> "dead", m |-> m]
Garbage == [st |-> "garbage", m |-> NoModel]

\* Outcomes of a virtual call through pimpl() on a buffer that holds no live
\* Model (undefined behaviour): the stale vptr still dispatches to the Model's
\* function, which then works on the stale bytes ("stale") or on bytes that
\* no longer are a value ("junk"), or the call ends the program ("abort",
\* e.g. "pure virtual method called").
UBOutcomes == {"stale", "junk", "abort"}

\* Calls made by one operation, as an instrumented build counts them
\* (copies: copies made of the shape; each Model constructor makes one)
Calls(ctor, dtor, new, delete) ==
    [ctor |-> ctor, dtor |-> dtor, new |-> new, delete |-> delete, copies |-> ctor]

NoCalls == Calls(0, 0, 0, 0)

Rec(op, res, ub, ret, calls) ==
    [op |-> op, res |-> res, ub |-> ub, ret |-> ret, calls |-> calls]

\* the running balance of the counters
Bump(c, calls) ==
    [models |-> c.models + calls.ctor - calls.dtor,
     blocks |-> c.blocks + calls.new - calls.delete]

Res(threw, abort) == IF abort THEN "abort" ELSE IF threw THEN "threw" ELSE "ok"

\* A behaviour ends at its first operation with undefined behaviour: the
\* outcome of that operation is recorded, nothing is said of what follows.
Running == last.res # "abort" /\ last.ub = "none"

\* The choices an action draws that its code path does not read are fixed:
\* on a live Model there is no undefined behaviour to resolve, and on a
\* buffer without one no copy constructor of a member gets to throw.
Relevant(cell, throws, out) ==
    IF cell.st = "live" THEN out = "stale" ELSE ~throws

\* objects come into existence in index order (the naming of fresh objects)
Fresh(b) == /\ life[b] = "Uninitialized"
            /\ \A c \in Boxes : c < b => life[c] # "Uninitialized"

Init ==
    /\ program \in {"SBO_1", "TE_2", "TE_1"}
    /\ life = [b \in Boxes |-> "Uninitialized"]
    /\ buf = [b \in Boxes |-> Raw]
    /\ pimpl_ = [b \in Boxes |-> Null]
    /\ heap = [a \in Addrs |-> Raw]
    /\ last = Rec("none", "ok", "none", NoRet, NoCalls)
    /\ cnt = [models |-> 0, blocks |-> 0]

\* The storage a Shape reaches through pimpl() / pimpl_
Owned(b) ==
    IF program = "SBO_1" THEN buf[b]
    ELSE IF pimpl_[b] = Null THEN Raw ELSE heap[pimpl_[b]]

\* a strategy's call operator that takes the shape by value
ArgCopies_ByValue(strategy) == 1

\* Copies of the shape made by passing it to the strategy's call operator:
\* GLDrawer, FSSerializer, FreeDraw and the lambdas take a T const&
ArgCopies(strategy) == 0

\* the calls made by do_serialize / do_draw on the Model in cell
ApplyCalls(cell, f) ==
    IF cell.st = "live"
    THEN [NoCalls EXCEPT !.copies =
             ArgCopies(IF f = "serialize" THEN cell.m.serializer_ ELSE cell.m.drawer_)]
    ELSE NoCalls

(***************************************************************************)
(* SBO_1: the building blocks of the special member functions.             *)
(***************************************************************************)
\* the lifetime of the Model ends without its destructor being called
DestroyAt_Trivial(cell, out) ==
    [cell |-> Dead(cell.m), dtor |-> 0, ub |-> "none", abort |-> FALSE]

\* pimpl()->~Concept() on a cell: [cell, dtor calls, ub, abort]
DestroyAt(cell, out) ==
    IF cell.st = "live"
    THEN [cell |-> Dead(cell.m), dtor |-> 1, ub |-> "none", abort |-> FALSE]
    ELSE \* the destructor is called on a buffer without a live Model
         IF out = "abort"
         THEN [cell |-> cell, dtor |-> 0, ub |-> "dtor_on_dead", abort |-> TRUE]
         ELSE [cell |-> cell, dtor |-> 1, ub |-> "dtor_on_dead", abort |-> FALSE]

\* the Model is created by a new-expression that allocates
PlacementNew_Heap(m) == [cell |-> Live(m), new |-> 1]

\* ::new (memory) M(...): the model is placed in the buffer, no operator new
PlacementNew(m) == [cell |-> Live(m), new |-> 0]

\* a clone whose failing copy leaves the members copied so far in the memory
CloneAt_Partial(src, mem, throws, out) ==
    [cell |-> IF throws THEN Garbage ELSE Live(src.m), ctor |-> 1, new |-> 0,
     threw |-> throws, ub |-> "none", abort |-> FALSE]

\* a clone that swallows the exception of a failing copy and returns
CloneAt_Swallow(src, mem, throws, out) ==
    [cell |-> IF throws THEN mem ELSE Live(src.m), ctor |-> IF throws THEN 0 ELSE 1,
     new |-> 0, threw |-> FALSE, ub |-> "none", abort |-> FALSE]

\* src.pimpl()->clone( memory ): [cell placed at memory, ctor calls, new calls,
\* threw, ub, abort]; mem is the cell the memory holds before the call
CloneAt(src, mem, throws, out) ==
    IF src.st = "live"
    THEN IF throws
         THEN [cell |-> mem, ctor |-> 0, new |-> 0, threw |-> TRUE,
               ub |-> "none", abort |-> FALSE]
         ELSE [cell |-> PlacementNew(src.m).cell, ctor |-> 1,
               new |-> PlacementNew(src.m).new, threw |-> FALSE,
               ub |-> "none", abort |-> FALSE]
    ELSE \* virtual call on a buffer without a live Model
         CASE out = "abort" ->
                [cell |-> mem, ctor |-> 0, new |-> 0, threw |-> FALSE,
                 ub |-> "clone_on_dead", abort |-> TRUE]
           [] out = "stale" /\ src.st = "dead" ->
                [cell |-> Live(src.m), ctor |-> 1, new |-> 0, threw |-> FALSE,
                 ub |-> "clone_on_dead", abort |-> FALSE]
           [] OTHER ->
                [cell |-> Garbage, ctor |-> 1, new |-> 0, threw |-> FALSE,
                 ub |-> "clone_on_dead", abort |-> FALSE]

\* The exception a strategy throws when called with the shape (FSSerializer
\* grows a std::vector, a drawer writes to a stream)
Raise(strategy, shape) ==
    [fn |-> "exception", type |-> strategy, val |-> shape.val,
     cx |-> shape.cx, cy |-> shape.cy, color |-> "-"]

\* what do_serialize / do_draw of Model m throws when its strategy throws
Thrown(m, f) ==
    IF f = "serialize" THEN Raise(m.serializer_, m.shape_) ELSE Raise(m.drawer_, m.shape_)

\* serialize / free_draw / do_serialize / do_draw have no handler: what the
\* strategy throws leaves the Shape's function as it is
\* (first a variant that hands the caller an exception of the Shape's own)
Propagate_Translated(e) == [e EXCEPT !.type = "Shape"]

Propagate(e) == e

\* A virtual call of do_serialize / do_draw through pimpl(): what the caller
\* gets, [ret, ub, abort]
Dispatch(cell, f, out) ==
    IF cell.st = "live"
    THEN [ret |-> IF f = "serialize" THEN do_serialize(cell.m) ELSE do_draw(cell.m),
          ub |-> "none", abort |-> FALSE]
    ELSE CASE out = "abort" -> [ret |-> NoRet, ub |-> "call_on_dead", abort |-> TRUE]
           [] out = "stale" /\ cell.st = "dead" ->
                [ret |-> IF f = "serialize" THEN do_serialize(cell.m) ELSE do_draw(cell.m),
                 ub |-> "call_on_dead", abort |-> FALSE]
           [] OTHER -> [ret |-> [NoRet EXCEPT !.fn = "junk"], ub |-> "call_on_dead",
                        abort |-> FALSE]

(***************************************************************************)
(* SBO_1: the actions.                                                     *)
(***************************************************************************)
\* Shape( ShapeT const&, DrawStrategy const&, SerializationStrategy const& )
Construct(b, in, throws) ==
    /\ program = "SBO_1" /\ Running
    /\ Fresh(b)
    /\ IF ~StaticAssertsHold(in[1], in[2])
       THEN \* the instantiation is ill-formed: no object, nothing is written
            /\ ~throws
            /\ last' = Rec("construct", "rejected", "none", NoRet, NoCalls)
            /\ UNCHANGED <<life, buf, cnt>>
       ELSE IF throws
       THEN \* a copy constructor of a member throws: the Shape never exists
            /\ last' = Rec("construct", "threw", "none", NoRet, NoCalls)
            /\ UNCHANGED <<life, buf, cnt>>
       ELSE LET n     == PlacementNew(Model(in[1], in[2], in[3]))
                calls == Calls(1, 0, n.new, 0)
                held  == AssertHolds(b, Model(in[1], in[2], in[3]))   \* else: abort()
            IN  /\ buf' = [buf EXCEPT ![b] = n.cell]
                /\ life' = [life EXCEPT ![b] = IF held THEN "Alive" ELSE "Uninitialized"]
                /\ cnt' = Bump(cnt, calls)
                /\ last' = Rec("construct", Res(FALSE, ~held), "none", NoRet, calls)
    /\ UNCHANGED <<program, pimpl_, heap>>

\* ~Shape()
Destroy(b, out) ==
    /\ program = "SBO_1" /\ Running
    /\ life[b] = "Alive"
    /\ Relevant(buf[b], FALSE, out)
    /\ LET d     == DestroyAt(buf[b], out)
           calls == Calls(0, d.dtor, 0, 0)
       IN  \* once the destructor returns the object's storage is gone
           /\ buf' = [buf EXCEPT ![b] = IF d.abort THEN d.cell ELSE Raw]
           /\ life' = [life EXCEPT ![b] = IF d.abort THEN "Alive" ELSE "Destroyed"]
           /\ cnt' = Bump(cnt, calls)
           /\ last' = Rec("destroy", Res(FALSE, d.abort), d.ub, NoRet, calls)
    /\ UNCHANGED <<program, pimpl_, heap>>

\* Shape( Shape const& other )
CopyConstruct(b, o, throws, out) ==
    /\ program = "SBO_1" /\ Running
    /\ Fresh(b)
    /\ life[o] = "Alive"
    /\ Relevant(buf[o], throws, out)
    /\ LET c     == CloneAt(buf[o], buf[b], throws, out)
           calls == Calls(c.ctor, 0, c.new, 0)
       IN  /\ buf' = [buf EXCEPT ![b] = c.cell]
           /\ life' = [life EXCEPT ![b] = IF c.threw \/ c.abort THEN "Uninitialized"
                                          ELSE "Alive"]
           /\ cnt' = Bump(cnt, calls)
           /\ last' = Rec("copy_construct", Res(c.threw, c.abort), c.ub, NoRet, calls)
    /\ UNCHANGED <<program, pimpl_, heap>>

\* a copy assignment that clones into the buffer first and runs the
\* destructor afterwards
CopyAssign_CloneFirst(b, o, throws, out1, out2) ==
    /\ program = "SBO_1" /\ Running
    /\ life[b] = "Alive" /\ life[o] = "Alive"
    /\ Relevant(buf[o], throws, out2) /\ out1 = "stale"
    /\ LET c    == CloneAt(buf[o], buf[b], throws, out2)
           buf1 == [buf EXCEPT ![b] = c.cell]
           d    == DestroyAt(buf1[b], out1)
       IN  /\ buf' = [buf1 EXCEPT ![b] = d.cell]
           /\ cnt' = Bump(cnt, Calls(c.ctor, d.dtor, c.new, 0))
           /\ last' = Rec("copy_assign", Res(c.threw, c.abort \/ d.abort),
                          IF c.ub # "none" THEN c.ub ELSE d.ub, NoRet,
                          Calls(c.ctor, d.dtor, c.new, 0))
    /\ UNCHANGED <<program, life, pimpl_, heap>>

\* Shape& operator=( Shape const& other )
CopyAssign(b, o, throws, out1, out2) ==
    /\ program = "SBO_1" /\ Running
    /\ life[b] = "Alive" /\ life[o] = "Alive"
    /\ Relevant(buf[b], FALSE, out1)
    /\ LET d    == DestroyAt(buf[b], out1)                      \* pimpl()->~Concept()
           buf1 == [buf EXCEPT ![b] = d.cell]
           c    == CloneAt(buf1[o], buf1[b], throws, out2)      \* other.pimpl()->clone( pimpl() )
       IN  IF d.abort \/ d.ub # "none"
           THEN \* the behaviour ends in the destructor call
                /\ ~throws /\ out2 = "stale"
                /\ buf' = buf1
                /\ cnt' = Bump(cnt, Calls(0, d.dtor, 0, 0))
                /\ last' = Rec("copy_assign", Res(FALSE, d.abort), d.ub, NoRet,
                               Calls(0, d.dtor, 0, 0))
           ELSE /\ Relevant(buf1[o], throws, out2)
                /\ buf' = [buf1 EXCEPT ![b] = c.cell]
                /\ cnt' = Bump(cnt, Calls(c.ctor, d.dtor, c.new, 0))
                /\ last' = Rec("copy_assign", Res(c.threw, c.abort), c.ub, NoRet,
                               Calls(c.ctor, d.dtor, c.new, 0))
    /\ UNCHANGED <<program, life, pimpl_, heap>>

\* std::string Shape::serialize() const
Serialize(b, raises, out) ==
    /\ program = "SBO_1" /\ Running
    /\ life[b] = "Alive"
    /\ Relevant(buf[b], raises, out)
    /\ LET r == Dispatch(buf[b], "serialize", out)
       IN  last' = IF raises
                   THEN Rec("serialize", "threw", "none",
                            Propagate(Thrown(buf[b].m, "serialize")), ApplyCalls(buf[b], "serialize"))
                   ELSE Rec("serialize", Res(FALSE, r.abort), r.ub, r.ret,
                            ApplyCalls(buf[b], "serialize"))
    /\ UNCHANGED <<program, life, buf, pimpl_, heap, cnt>>

\* friend void free_draw( Shape const& shape )
FreeDraw(b, raises, out) ==
    /\ program = "SBO_1" /\ Running
    /\ life[b] = "Alive"
    /\ Relevant(buf[b], raises, out)
    /\ LET r == Dispatch(buf[b], "free_draw", out)
       IN  last' = IF raises
                   THEN Rec("free_draw", "threw", "none",
                            Propagate(Thrown(buf[b].m, "free_draw")), ApplyCalls(buf[b], "free_draw"))
                   ELSE Rec("free_draw", Res(FALSE, r.abort), r.ub, r.ret,
                            ApplyCalls(buf[b], "free_draw"))
    /\ UNCHANGED <<program, life, buf, pimpl_, heap, cnt>>

\* The elements of the std::vector<Shape>, in insertion order: the Shapes
\* alive, which came into existence in index order
shapes ==
    LET alive == {b \in Boxes : life[b] = "Alive"}
    IN  [i \in 1 .. Cardinality(alive) |->
            CHOOSE b \in alive : Cardinality({c \in alive : c <= b}) = i]

\* a reallocation that leaves the new storage as it came from the allocator
Relocated_Raw(cell, out) ==
    [cell |-> Raw, ctor |-> 0, new |-> 0, threw |-> FALSE, ub |-> "none", abort |-> FALSE]

\* What the growing vector puts into its new storage for an old element:
\* Shape has no move constructor, so the element is copy-constructed
\* (other.pimpl()->clone( pimpl() )) into the raw storage
Relocated(cell, out) == CloneAt(cell, Raw, FALSE, out)

\* shapes.emplace_back( shape, drawer, serializer ).  grow: the capacity is
\* used up, and the vector allocates new storage, constructs the new element
\* there, copies the old elements in front of it and destroys the old ones
\* (the new storage is the Shapes f .. f+n, the new element the last of
\* them).  cthrows: the Shape constructor throws; throwAt: the copy of that
\* element throws (0: none), and what was built in the new storage is
\* destroyed again.  The copy of an element without a live Model is
\* undefined behaviour.
emplace_back(in, grow, cthrows, throwAt, out) ==
    /\ program = "SBO_1" /\ Running
    /\ {b \in Boxes : life[b] = "Uninitialized"} # {}
    /\ grow => Len(shapes) > 0
    /\ LET e         == shapes
           n         == IF grow THEN Len(e) ELSE 0
           f         == CHOOSE b \in Boxes : Fresh(b)
           dead      == {i \in 1 .. n : buf[e[i]].st # "live"}
           firstDead == IF dead = {} THEN n + 1
                        ELSE CHOOSE i \in dead : \A j \in dead : i <= j
           pn        == PlacementNew(Model(in[1], in[2], in[3]))
           r(i)      == Relocated(buf[e[i]], out)
           old       == {e[i] : i \in 1 .. n}
       IN  /\ f + n <= NBoxes
           /\ IF ~StaticAssertsHold(in[1], in[2])
              THEN /\ ~cthrows /\ throwAt = 0 /\ out = "stale"
                   /\ last' = Rec("emplace_back", "rejected", "none", NoRet, NoCalls)
                   /\ UNCHANGED <<life, buf, cnt>>
              ELSE IF cthrows
              THEN /\ throwAt = 0 /\ out = "stale"
                   /\ last' = Rec("emplace_back", "threw", "none", NoRet, NoCalls)
                   /\ UNCHANGED <<life, buf, cnt>>
              ELSE IF ~AssertHolds(f + n, Model(in[1], in[2], in[3]))
              THEN \* the assertion of the Shape constructor fails: abort()
                   /\ throwAt = 0 /\ out = "stale"
                   /\ buf' = [buf EXCEPT ![f + n] = pn.cell]
                   /\ cnt' = Bump(cnt, Calls(1, 0, pn.new, 0))
                   /\ last' = Rec("emplace_back", "abort", "none", NoRet,
                                  Calls(1, 0, pn.new, 0))
                   /\ UNCHANGED life
              ELSE IF throwAt > 0
              THEN /\ throwAt < firstDead /\ out = "stale"
                   /\ last' = Rec("emplace_back", "threw", "none", NoRet,
                                  Calls(throwAt, throwAt, pn.new, pn.new))
                   /\ UNCHANGED <<life, buf, cnt>>
              ELSE IF firstDead <= n
              THEN LET c     == r(firstDead)
                       built == {f + n} \cup {f + i - 1 : i \in 1 .. firstDead - 1}
                                        \cup (IF c.abort THEN {} ELSE {f + firstDead - 1})
                       calls == Calls(firstDead + c.ctor, 0, pn.new, 0)
                   IN  /\ buf' = [b \in Boxes |->
                                    IF b = f + n THEN pn.cell
                                    ELSE IF b \in f .. (f + firstDead - 1)
                                    THEN r(b - f + 1).cell ELSE buf[b]]
                       /\ life' = [b \in Boxes |-> IF b \in built THEN "Alive" ELSE life[b]]
                       /\ cnt' = Bump(cnt, calls)
                       /\ last' = Rec("emplace_back", Res(FALSE, c.abort), c.ub, NoRet, calls)
              ELSE LET calls == Calls(1 + Cardinality({i \in 1 .. n : r(i).ctor = 1}),
                                      Cardinality({i \in 1 .. n :
                                                     DestroyAt(buf[e[i]], out).dtor = 1}),
                                      pn.new, 0)
                   IN  /\ out = "stale"
                       /\ buf' = [b \in Boxes |->
                                    IF b = f + n THEN pn.cell
                                    ELSE IF b \in f .. (f + n - 1) THEN r(b - f + 1).cell
                                    ELSE IF b \in old THEN Raw ELSE buf[b]]
                       /\ life' = [b \in Boxes |->
                                    IF b \in f .. (f + n) THEN "Alive"
                                    ELSE IF b \in old THEN "Destroyed" ELSE life[b]]
                       /\ cnt' = Bump(cnt, calls)
                       /\ last' = Rec("emplace_back", "ok", "none", NoRet, calls)
    /\ UNCHANGED <<program, pimpl_, heap>>

\* a range-based for loop that visits the elements from the back
RECURSIVE ForEach_Reversed(_, _, _, _)
ForEach_Reversed(e, i, n, f) ==
    IF i > n THEN <<>>
    ELSE Append(ForEach_Reversed(e, i + 1, n, f), Dispatch(buf[e[i]], f, "stale").ret)

\* for( auto const& shape : shapes ) over the elements i .. n of e: what the
\* calls of f ("free_draw" / "serialize") give, one after the other
RECURSIVE ForEach(_, _, _, _)
ForEach(e, i, n, f) ==
    IF i > n THEN <<>>
    ELSE <<Dispatch(buf[e[i]], f, "stale").ret>> \o ForEach(e, i + 1, n, f)

\* The loop of drawAllShapes / serializeAllShapes.  raiseAt is the element
\* whose strategy throws (0: none does); the loop ends there, or at the first
\* element that holds no live Model (undefined behaviour).  last.ret is the
\* sequence of what the calls gave (for serializeAllShapes the pieces of
\* serialized_shapes in the order they were appended).
AllShapes(op, f, raiseAt, out) ==
    /\ program = "SBO_1" /\ Running
    /\ LET e         == shapes
           n         == Len(e)
           dead      == {i \in 1 .. n : buf[e[i]].st # "live"}
           firstDead == IF dead = {} THEN n + 1
                        ELSE CHOOSE i \in dead : \A j \in dead : i <= j
       IN  /\ raiseAt < firstDead
           /\ (raiseAt = 0 /\ firstDead <= n) <=> out # "stale"
           /\ last' =
                CASE raiseAt > 0 ->
                       Rec(op, "threw", "none",
                           Append(ForEach(e, 1, raiseAt - 1, f),
                                  Propagate(Thrown(buf[e[raiseAt]].m, f))), NoCalls)
                  [] raiseAt = 0 /\ firstDead <= n ->
                       Rec(op, Res(FALSE, out = "abort"), "call_on_dead",
                           ForEach(e, 1, firstDead - 1, f), NoCalls)
                  [] OTHER ->
                       Rec(op, "ok", "none", ForEach(e, 1, n, f), NoCalls)
    /\ UNCHANGED <<program, life, buf, pimpl_, heap, cnt>>

\* void drawAllShapes( Shapes const& shapes )
drawAllShapes(raiseAt, out) == AllShapes("drawAllShapes", "free_draw", raiseAt, out)

\* void serializeAllShapes( Shapes const& shapes )
serializeAllShapes(raiseAt, out) ==
    AllShapes("serializeAllShapes", "serialize", raiseAt, out)

NextSBO ==
    \/ \E b \in Boxes, in \in ConstructInputs, t \in BOOLEAN : Construct(b, in, t)
    \/ \E b \in Boxes, out \in UBOutcomes : Destroy(b, out)
    \/ \E b, o \in Boxes, t \in BOOLEAN, out \in UBOutcomes : CopyConstruct(b, o, t, out)
    \/ \E b, o \in Boxes, t \in BOOLEAN, out1, out2 \in UBOutcomes :
          CopyAssign(b, o, t, out1, out2)
    \/ \E b \in Boxes, t \in BOOLEAN, out \in UBOutcomes : Serialize(b, t, out)
    \/ \E b \in Boxes, t \in BOOLEAN, out \in UBOutcomes : FreeDraw(b, t, out)
    \/ \E in \in ConstructInputs, grow, t \in BOOLEAN, k \in 0 .. NBoxes, out \in UBOutcomes :
          emplace_back(in, grow, t, k, out)
    \/ \E k \in 0 .. NBoxes, out \in UBOutcomes : drawAllShapes(k, out)
    \/ \E k \in 0 .. NBoxes, out \in UBOutcomes : serializeAllShapes(k, out)

(***************************************************************************)
(* TE_2: the building blocks.  heap[a] is "raw" while address a is free    *)
(* and holds the live Model otherwise.                                     *)
(***************************************************************************)
HasFree(h) == {a \in Addrs : h[a].st = "raw"} # {}

\* operator new: the lowest free address (the naming of fresh allocations)
FreshAddr(h) == CHOOSE a \in Addrs : /\ h[a].st = "raw"
                                     /\ \A c \in Addrs : c < a => h[c].st # "raw"

\* Addresses are names: after every operation each block is renamed to the
\* index of the first Shape that points to it (blocks nobody points to come
\* after them), which keeps one representative of each heap up to renaming.
Canon(p, h) ==
    LET first == [b \in Boxes |-> CHOOSE c \in Boxes : p[c] = p[b] /\ \A e \in Boxes :
                                                        p[e] = p[b] => c <= e]
        lost  == {a \in Addrs : h[a].st # "raw" /\ \A b \in Boxes : p[b] # a}
    IN  [p |-> [b \in Boxes |-> IF p[b] = Null THEN Null ELSE first[b]],
         h |-> [a \in Addrs |->
                  IF a \in Boxes
                  THEN IF p[a] # Null /\ first[a] = a THEN h[p[a]] ELSE Raw
                  ELSE IF lost = {} THEN Raw
                  ELSE IF \E c \in lost : Cardinality({e \in lost : e <= c}) = a - NBoxes
                  THEN h[CHOOSE c \in lost : Cardinality({e \in lost : e <= c}) = a - NBoxes]
                  ELSE Raw]]

\* How a std::make_unique<Model>( ... ) can end: it returns, operator new
\* throws std::bad_alloc, or a copy constructor of a member throws
Fails == {"none", "bad_alloc", "copy_throws"}

\* a make_unique that allocates the Model and a second block beside it
MakeUnique_Twice(h, m, fail) ==
    [heap |-> [h EXCEPT ![FreshAddr(h)] = Live(m)], p |-> FreshAddr(h),
     ctor |-> 1, new |-> 2, delete |-> 0, threw |-> FALSE]

\* a make_unique that refuses a Model over the size of the inline buffer
MakeUnique_Capped(h, m, fail) ==
    IF SizeofModel(m.shape_, m.drawer_) <= buffersize
    THEN [heap |-> [h EXCEPT ![FreshAddr(h)] = Live(m)], p |-> FreshAddr(h),
          ctor |-> 1, new |-> 1, delete |-> 0, threw |-> FALSE]
    ELSE [heap |-> h, p |-> Null, ctor |-> 0, new |-> 0, delete |-> 0, threw |-> TRUE]

\* a make_unique that keeps the block when the Model constructor throws
MakeUnique_Leaky(h, m, fail) ==
    CASE fail = "none" ->
           [heap |-> [h EXCEPT ![FreshAddr(h)] = Live(m)], p |-> FreshAddr(h),
            ctor |-> 1, new |-> 1, delete |-> 0, threw |-> FALSE]
      [] fail = "bad_alloc" ->
           [heap |-> h, p |-> Null, ctor |-> 0, new |-> 0, delete |-> 0, threw |-> TRUE]
      [] OTHER ->
           [heap |-> [h EXCEPT ![FreshAddr(h)] = Garbage], p |-> Null,
            ctor |-> 0, new |-> 1, delete |-> 0, threw |-> TRUE]

\* std::make_unique<Model>( args ): operator new, then the Model constructor;
\* when the constructor throws the block is released again.
\* [heap, p, ctor, new, delete, threw]
MakeUnique(h, m, fail) ==
    CASE fail = "none" ->
           [heap |-> [h EXCEPT ![FreshAddr(h)] = Live(m)], p |-> FreshAddr(h),
            ctor |-> 1, new |-> 1, delete |-> 0, threw |-> FALSE]
      [] fail = "bad_alloc" ->
           [heap |-> h, p |-> Null, ctor |-> 0, new |-> 0, delete |-> 0, threw |-> TRUE]
      [] OTHER ->
           [heap |-> h, p |-> Null, ctor |-> 0, new |-> 1, delete |-> 1, threw |-> TRUE]

\* a clone that hands out the block it was called on (a shallow copy)
clone_Shared(h, p, fail) ==
    [heap |-> h, p |-> p, ctor |-> 0, new |-> 0, delete |-> 0, threw |-> FALSE]

\* a clone that copies the shape and leaves the strategies behind
clone_Sliced(h, p, fail) ==
    MakeUnique(h, [h[p].m EXCEPT !.drawer_ = "-", !.serializer_ = "-"], fail)

\* Model::clone(): std::make_unique<Model>( *this )
clone(h, p, fail) == MakeUnique(h, h[p].m, fail)

\* a unique_ptr that forgets the Model it held without deleting it
DeletePtr_Forget(h, p) == [heap |-> h, dtor |-> 0, delete |-> 0, ub |-> "none"]

\* ~unique_ptr / unique_ptr::reset on pointer p: delete unless p is null.
\* [heap, dtor, delete, ub]
DeletePtr(h, p) ==
    IF p = Null THEN [heap |-> h, dtor |-> 0, delete |-> 0, ub |-> "none"]
    ELSE IF h[p].st = "live"
    THEN [heap |-> [h EXCEPT ![p] = Raw], dtor |-> 1, delete |-> 1, ub |-> "none"]
    ELSE [heap |-> h, dtor |-> 1, delete |-> 1, ub |-> "double_delete"]

\* pimpl_->do_serialize() / pimpl_->do_draw(): [ret, ub, abort]
HDispatch(h, p, f, out) ==
    IF p # Null /\ h[p].st = "live"
    THEN [ret |-> IF f = "serialize" THEN do_serialize(h[p].m) ELSE do_draw(h[p].m),
          ub |-> "none", abort |-> FALSE]
    ELSE IF out = "abort"
    THEN [ret |-> NoRet, ub |-> "null_deref", abort |-> TRUE]
    ELSE [ret |-> [NoRet EXCEPT !.fn = "junk"], ub |-> "null_deref", abort |-> FALSE]

\* as Relevant: a call through a null pointer crashes or reads junk
HRelevant(p, out) == IF p = Null THEN out # "stale" ELSE out = "stale"

\* The constructor calls of the TE_2 program: those the inline Shape accepts
\* and the 256-byte Model it rejects.
HeapInputs ==
    { in \in ConstructInputs :
         StaticAssertsHold(in[1], in[2]) \/ SizeofModel(in[1], in[2]) = 2 * buffersize }

(***************************************************************************)
(* TE_2: the actions.                                                      *)
(***************************************************************************)
\* Shape( ShapeT const&, DrawStrategy const&, SerializationStrategy const& )
HConstruct(b, in, fail) ==
    /\ program = "TE_2" /\ Running
    /\ Fresh(b) /\ HasFree(heap)
    /\ LET u     == MakeUnique(heap, Model(in[1], in[2], in[3]), fail)
           c     == Canon([pimpl_ EXCEPT ![b] = u.p], u.heap)
           calls == Calls(u.ctor, 0, u.new, u.delete)
       IN  /\ heap' = c.h
           /\ pimpl_' = c.p
           /\ life' = [life EXCEPT ![b] = IF u.threw THEN "Uninitialized" ELSE "Alive"]
           /\ cnt' = Bump(cnt, calls)
           /\ last' = Rec("construct", Res(u.threw, FALSE), "none", NoRet, calls)
    /\ UNCHANGED <<program, buf>>

\* Shape( Shape const& other ) : pimpl_{ other.pimpl_->clone() }
HCopyConstruct(b, o, fail, out) ==
    /\ program = "TE_2" /\ Running
    /\ Fresh(b) /\ life[o] = "Alive" /\ HasFree(heap)
    /\ HRelevant(pimpl_[o], out)
    /\ IF pimpl_[o] = Null
       THEN \* virtual call through a null pointer
            /\ fail = "none"
            /\ last' = Rec("copy_construct", Res(FALSE, out = "abort"), "null_deref",
                           NoRet, NoCalls)
            /\ life' = [life EXCEPT ![b] = IF out = "abort" THEN "Uninitialized" ELSE "Alive"]
            /\ UNCHANGED <<heap, pimpl_, cnt>>
       ELSE LET u     == clone(heap, pimpl_[o], fail)
                c     == Canon([pimpl_ EXCEPT ![b] = u.p], u.heap)
                calls == Calls(u.ctor, 0, u.new, u.delete)
            IN  /\ heap' = c.h
                /\ pimpl_' = c.p
                /\ life' = [life EXCEPT ![b] = IF u.threw THEN "Uninitialized" ELSE "Alive"]
                /\ cnt' = Bump(cnt, calls)
                /\ last' = Rec("copy_construct", Res(u.threw, FALSE), "none", NoRet, calls)
    /\ UNCHANGED <<program, buf>>

\* Shape& operator=( const Shape& other ): copy-and-swap
HCopyAssign(b, o, fail, out) ==
    /\ program = "TE_2" /\ Running
    /\ life[b] = "Alive" /\ life[o] = "Alive" /\ HasFree(heap)
    /\ HRelevant(pimpl_[o], out)
    /\ IF pimpl_[o] = Null
       THEN \* Shape tmp( other ) calls clone through a null pointer
            /\ fail = "none"
            /\ last' = Rec("copy_assign", Res(FALSE, out = "abort"), "null_deref",
                           NoRet, NoCalls)
            /\ UNCHANGED <<heap, pimpl_, cnt>>
       ELSE LET tmp == clone(heap, pimpl_[o], fail)           \* Shape tmp( other )
                old == pimpl_[b]                              \* after the swap: tmp.pimpl_
                d   == DeletePtr(tmp.heap, old)               \* ~Shape of tmp
                c   == Canon([pimpl_ EXCEPT ![b] = tmp.p], d.heap)
            IN  IF tmp.threw
                THEN /\ heap' = tmp.heap
                     /\ UNCHANGED pimpl_
                     /\ cnt' = Bump(cnt, Calls(0, 0, tmp.new, tmp.delete))
                     /\ last' = Rec("copy_assign", "threw", "none", NoRet,
                                    Calls(0, 0, tmp.new, tmp.delete))
                ELSE /\ heap' = c.h
                     /\ pimpl_' = c.p
                     /\ cnt' = Bump(cnt, Calls(tmp.ctor, d.dtor, tmp.new, d.delete))
                     /\ last' = Rec("copy_assign", "ok", d.ub, NoRet,
                                    Calls(tmp.ctor, d.dtor, tmp.new, d.delete))
    /\ UNCHANGED <<program, life, buf>>

\* a move that leaves the source pointing to the model it gave away
MovedFrom_Kept(p) == p

\* what unique_ptr's move constructor / release() leave in the source
MovedFrom(p) == Null

\* Shape( Shape&& ) = default: the unique_ptr is moved, the source is null
HMoveConstruct(b, o) ==
    /\ program = "TE_2" /\ Running
    /\ Fresh(b) /\ life[o] = "Alive"
    /\ LET c == Canon([pimpl_ EXCEPT ![b] = pimpl_[o], ![o] = MovedFrom(pimpl_[o])], heap)
       IN  heap' = c.h /\ pimpl_' = c.p
    /\ life' = [life EXCEPT ![b] = "Alive"]
    /\ last' = Rec("move_construct", "ok", "none", NoRet, NoCalls)
    /\ UNCHANGED <<program, buf, cnt>>

\* Shape& operator=( Shape&& ) = default: pimpl_.reset( other.pimpl_.release() )
HMoveAssign(b, o) ==
    /\ program = "TE_2" /\ Running
    /\ life[b] = "Alive" /\ life[o] = "Alive"
    /\ LET p      == pimpl_[o]                                 \* release()
           after  == [pimpl_ EXCEPT ![o] = MovedFrom(p)]
           old    == after[b]                                  \* reset( p )
           d      == DeletePtr(heap, old)
           c      == Canon([after EXCEPT ![b] = p], d.heap)
           calls  == Calls(0, d.dtor, 0, d.delete)
       IN  /\ pimpl_' = c.p
           /\ heap' = c.h
           /\ cnt' = Bump(cnt, calls)
           /\ last' = Rec("move_assign", "ok", d.ub, NoRet, calls)
    /\ UNCHANGED <<program, life, buf>>

\* ~Shape() = default: ~unique_ptr
HDestroy(b) ==
    /\ program = "TE_2" /\ Running
    /\ life[b] = "Alive"
    /\ LET d     == DeletePtr(heap, pimpl_[b])
           c     == Canon([pimpl_ EXCEPT ![b] = Null], d.heap)
           calls == Calls(0, d.dtor, 0, d.delete)
       IN  /\ heap' = c.h
           /\ pimpl_' = c.p
           /\ cnt' = Bump(cnt, calls)
           /\ last' = Rec("destroy", "ok", d.ub, NoRet, calls)
    /\ life' = [life EXCEPT ![b] = "Destroyed"]
    /\ UNCHANGED <<program, buf>>

\* std::string Shape::serialize() const
HSerialize(b, raises, out) ==
    /\ program = "TE_2" /\ Running
    /\ life[b] = "Alive" /\ HRelevant(pimpl_[b], out)
    /\ raises => pimpl_[b] # Null
    /\ LET r == HDispatch(heap, pimpl_[b], "serialize", out)
       IN  last' = IF raises
                   THEN Rec("serialize", "threw", "none",
                            Propagate(Thrown(heap[pimpl_[b]].m, "serialize")), ApplyCalls(Owned(b), "serialize"))
                   ELSE Rec("serialize", Res(FALSE, r.abort), r.ub, r.ret,
                            ApplyCalls(Owned(b), "serialize"))
    /\ UNCHANGED <<program, life, buf, pimpl_, heap, cnt>>

\* friend void free_draw( Shape const& shape )
HFreeDraw(b, raises, out) ==
    /\ program = "TE_2" /\ Running
    /\ life[b] = "Alive" /\ HRelevant(pimpl_[b], out)
    /\ raises => pimpl_[b] # Null
    /\ LET r == HDispatch(heap, pimpl_[b], "free_draw", out)
       IN  last' = IF raises
                   THEN Rec("free_draw", "threw", "none",
                            Propagate(Thrown(heap[pimpl_[b]].m, "free_draw")), ApplyCalls(Owned(b), "free_draw"))
                   ELSE Rec("free_draw", Res(FALSE, r.abort), r.ub, r.ret,
                            ApplyCalls(Owned(b), "free_draw"))
    /\ UNCHANGED <<program, life, buf, pimpl_, heap, cnt>>

NextTE2 ==
    \/ \E b \in Boxes, in \in HeapInputs, f \in Fails : HConstruct(b, in, f)
    \/ \E b, o \in Boxes, f \in Fails, out \in UBOutcomes : HCopyConstruct(b, o, f, out)
    \/ \E b, o \in Boxes, f \in Fails, out \in UBOutcomes : HCopyAssign(b, o, f, out)
    \/ \E b, o \in Boxes : HMoveConstruct(b, o)
    \/ \E b, o \in Boxes : HMoveAssign(b, o)
    \/ \E b \in Boxes : HDestroy(b)
    \/ \E b \in Boxes, t \in BOOLEAN, out \in UBOutcomes : HSerialize(b, t, out)
    \/ \E b \in Boxes, t \in BOOLEAN, out \in UBOutcomes : HFreeDraw(b, t, out)

(***************************************************************************)
(* TE_1: Tasks/.../Type_Erasure/TypeErasure_1.cpp, the Shape with a draw   *)
(* strategy only; copy operations clone, there are no move operations.     *)
(***************************************************************************)
\* The constructor calls of TE_1: shapes and GLDrawers as in its main
DrawInputs ==
    { <<Circle(23), "GLDrawer_red">>, <<Square(12), "GLDrawer_green">> }

\* ShapeModel( ShapeT const& shape, DrawStrategy drawer )
ShapeModel(shape, drawer) == Model(shape, drawer, "-")

\* Shape( ShapeT const& shape, DrawStrategy drawer )
T1Construct(b, in, fail) ==
    /\ program = "TE_1" /\ Running
    /\ Fresh(b) /\ HasFree(heap)
    /\ LET u     == MakeUnique(heap, ShapeModel(in[1], in[2]), fail)
           c     == Canon([pimpl_ EXCEPT ![b] = u.p], u.heap)
           calls == Calls(u.ctor, 0, u.new, u.delete)
       IN  /\ heap' = c.h
           /\ pimpl_' = c.p
           /\ life' = [life EXCEPT ![b] = IF u.threw THEN "Uninitialized" ELSE "Alive"]
           /\ cnt' = Bump(cnt, calls)
           /\ last' = Rec("construct", Res(u.threw, FALSE), "none", NoRet, calls)
    /\ UNCHANGED <<program, buf>>

\* Shape(Shape const& other):pimpl_{other.pimpl_->clone()}
T1CopyConstruct(b, o, fail) ==
    /\ program = "TE_1" /\ Running
    /\ Fresh(b) /\ life[o] = "Alive" /\ HasFree(heap)
    /\ LET u     == clone(heap, pimpl_[o], fail)
           c     == Canon([pimpl_ EXCEPT ![b] = u.p], u.heap)
           calls == Calls(u.ctor, 0, u.new, u.delete)
       IN  /\ heap' = c.h
           /\ pimpl_' = c.p
           /\ life' = [life EXCEPT ![b] = IF u.threw THEN "Uninitialized" ELSE "Alive"]
           /\ cnt' = Bump(cnt, calls)
           /\ last' = Rec("copy_construct", Res(u.threw, FALSE), "none", NoRet, calls)
    /\ UNCHANGED <<program, buf>>

\* Shape& operator=(Shape const& other){ pimpl_ = other.pimpl_->clone(); }
T1CopyAssign(b, o, fail) ==
    /\ program = "TE_1" /\ Running
    /\ life[b] = "Alive" /\ life[o] = "Alive" /\ HasFree(heap)
    /\ LET u     == clone(heap, pimpl_[o], fail)          \* the temporary unique_ptr
           d     == DeletePtr(u.heap, pimpl_[b])          \* unique_ptr move assignment
           c     == Canon([pimpl_ EXCEPT ![b] = u.p], d.heap)
       IN  IF u.threw
           THEN /\ heap' = u.heap
                /\ UNCHANGED pimpl_
                /\ cnt' = Bump(cnt, Calls(0, 0, u.new, u.delete))
                /\ last' = Rec("copy_assign", "threw", "none", NoRet,
                               Calls(0, 0, u.new, u.delete))
           ELSE /\ heap' = c.h
                /\ pimpl_' = c.p
                /\ cnt' = Bump(cnt, Calls(u.ctor, d.dtor, u.new, d.delete))
                /\ last' = Rec("copy_assign", "ok", d.ub, NoRet,
                               Calls(u.ctor, d.dtor, u.new, d.delete))
    /\ UNCHANGED <<program, life, buf>>

\* the implicit ~Shape(): ~unique_ptr
T1Destroy(b) ==
    /\ program = "TE_1" /\ Running
    /\ life[b] = "Alive"
    /\ LET d     == DeletePtr(heap, pimpl_[b])
           c     == Canon([pimpl_ EXCEPT ![b] = Null], d.heap)
           calls == Calls(0, d.dtor, 0, d.delete)
       IN  /\ heap' = c.h
           /\ pimpl_' = c.p
           /\ cnt' = Bump(cnt, calls)
           /\ last' = Rec("destroy", "ok", d.ub, NoRet, calls)
    /\ life' = [life EXCEPT ![b] = "Destroyed"]
    /\ UNCHANGED <<program, buf>>

\* void draw()const{pimpl_->draw();}
T1Draw(b, raises) ==
    /\ program = "TE_1" /\ Running
    /\ life[b] = "Alive"
    /\ LET r == HDispatch(heap, pimpl_[b], "draw", "stale")
       IN  last' = IF raises
                   THEN Rec("draw", "threw", "none",
                            Propagate(Thrown(heap[pimpl_[b]].m, "draw")), ApplyCalls(Owned(b), "draw"))
                   ELSE Rec("draw", Res(FALSE, r.abort), r.ub, r.ret,
                            ApplyCalls(Owned(b), "draw"))
    /\ UNCHANGED <<program, life, buf, pimpl_, heap, cnt>>

NextTE1 ==
    \/ \E b \in Boxes, in \in DrawInputs, f \in Fails : T1Construct(b, in, f)
    \/ \E b, o \in Boxes, f \in Fails : T1CopyConstruct(b, o, f)
    \/ \E b, o \in Boxes, f \in Fails : T1CopyAssign(b, o, f)
    \/ \E b \in Boxes : T1Destroy(b)
    \/ \E b \in Boxes, t \in BOOLEAN : T1Draw(b, t)

Next == NextSBO \/ NextTE2 \/ NextTE1

Spec == Init /\ [][Next]_vars

\* one program at a time
InitSBO == Init /\ program = "SBO_1"
InitTE2 == Init /\ program = "TE_2"
InitTE1 == Init /\ program = "TE_1"

SpecSBO == InitSBO /\ [][NextSBO]_vars
SpecTE2 == InitTE2 /\ [][NextTE2]_vars
SpecTE1 == InitTE1 /\ [][NextTE1]_vars

\* the two programs with the heap Shape
InitHeap == InitTE2 \/ InitTE1

SpecHeap == InitHeap /\ [][NextTE2 \/ NextTE1]_vars

(***************************************************************************)
(* The classic Strategy shapes.  Circle and Square take their strategies   *)
(* in the constructor and throw std::invalid_argument for a null one:      *)
(*   MultipleStrategies_1 : three std::unique_ptr (draw, serialization,    *)
(*                          print);                                        *)
(*   MultipleStrategies_2 : one std::unique_ptr<ShapeStrategy>;            *)
(*   Strategy_Refactoring : two std::function (draw, serialization);       *)
(*   Strategy_Task        : Tasks/.../Strategy_Refactoring.cpp, one        *)
(*                          std::function (draw).                          *)
(* The shapes are made with std::make_unique and owned by the elements of  *)
(* Shapes = std::vector<std::unique_ptr<Shape>> (pimpl_[b] is element b).  *)
(***************************************************************************)
StrategyPrograms ==
    {"MultipleStrategies_1", "MultipleStrategies_2", "Strategy_Refactoring", "Strategy_Task"}

\* the strategy parameters of the constructor, in the order it checks them
Slots(prog) ==
    CASE prog = "MultipleStrategies_1" -> <<"draw", "serialization", "print">>
      [] prog = "MultipleStrategies_2" -> <<"shape">>
      [] prog = "Strategy_Refactoring" -> <<"draw", "serialization">>
      [] OTHER                         -> <<"draw">>

\* the strategies are std::function objects (else std::unique_ptr)
IsFunction(prog) == prog \in {"Strategy_Refactoring", "Strategy_Task"}

\* the strategy objects main passes for a slot
StrategyFor(slot) ==
    CASE slot = "draw"          -> "GLDrawer"
      [] slot = "serialization" -> "FSSerializer"
      [] slot = "print"         -> "JLPrinter"
      [] OTHER                  -> "ConcreteShapeStrategy"

\* constructor arguments: a shape and, for every slot, a strategy or null
StrategyInputs(prog) ==
    { <<shape, a>> : shape \in {Circle(41), Square(12)},
                     a \in [1 .. Len(Slots(prog)) -> {"null", "set"}] }

\* a constructor that tests its strategies from the last to the first
RECURSIVE FirstNull_Backwards(_, _)
FirstNull_Backwards(a, i) ==
    IF i > Len(a) THEN 0
    ELSE LET later == FirstNull_Backwards(a, i + 1)
         IN  IF later # 0 THEN later ELSE IF a[i] = "null" THEN i ELSE 0

\* the if( !drawer_ ) ... if( !serializer_ ) ... if( !printer_ ) ... of the
\* constructor body, from check i on: the first slot whose strategy is null
\* (0: none)
RECURSIVE FirstNull(_, _)
FirstNull(a, i) ==
    IF i > Len(a) THEN 0
    ELSE IF a[i] = "null" THEN i ELSE FirstNull(a, i + 1)

\* throw std::invalid_argument( "Invalid <slot> strategy" )
InvalidArgument(slot) == [NoRet EXCEPT !.fn = "invalid_argument", !.type = slot]

\* the members of a Circle / Square: the shape and its strategies by slot
StrategyShape(prog, shape, a) ==
    [shape_ |-> shape,
     strategy_ |-> [i \in 1 .. Len(a) |->
                      IF a[i] = "null" THEN "null" ELSE StrategyFor(Slots(prog)[i])]]

\* the slot draw() / serialize() / print() call through (0: no such member)
SlotOf(prog, f) ==
    LET i == CASE f = "draw" -> 1 [] f = "serialize" -> 2 [] OTHER -> 3
    IN  IF prog = "MultipleStrategies_2" THEN 1
        ELSE IF i <= Len(Slots(prog)) THEN i ELSE 0

\* what strategy does for the shape when f is called
StrategyResult(f, strategy, shape) ==
    [NoRet EXCEPT !.fn = f, !.type = shape.type, !.val = shape.val, !.color = strategy]

\* std::make_unique<Circle>( radius, strategies... ), emplace_back of the
\* pointer: operator new, then the constructor; when it throws the block
\* is released and there is no object
SConstruct(b, in, fail) ==
    /\ program \in StrategyPrograms /\ Running
    /\ Fresh(b) /\ HasFree(heap)
    /\ in \in StrategyInputs(program)
    /\ LET k == FirstNull(in[2], 1)
       IN  IF fail
           THEN \* operator new throws std::bad_alloc
                /\ last' = Rec("construct", "threw", "none",
                               [NoRet EXCEPT !.fn = "bad_alloc"], NoCalls)
                /\ UNCHANGED <<life, pimpl_, heap, cnt>>
           ELSE IF k # 0
           THEN /\ last' = Rec("construct", "threw", "none",
                               InvalidArgument(Slots(program)[k]), Calls(0, 0, 1, 1))
                /\ UNCHANGED <<life, pimpl_, heap, cnt>>
           ELSE LET a == FreshAddr(heap)
                    c == Canon([pimpl_ EXCEPT ![b] = a],
                               [heap EXCEPT ![a] = Live(StrategyShape(program, in[1], in[2]))])
                IN  /\ heap' = c.h /\ pimpl_' = c.p
                    /\ life' = [life EXCEPT ![b] = "Alive"]
                    /\ cnt' = Bump(cnt, Calls(1, 0, 1, 0))
                    /\ last' = Rec("construct", "ok", "none", NoRet, Calls(1, 0, 1, 0))
    /\ UNCHANGED <<program, buf>>

\* shape->draw() / shape->serialize() / shape->print(): the call through
\* the strategy member.  Through a null unique_ptr it is undefined
\* behaviour, an empty std::function throws std::bad_function_call.
SCall(b, f, out) ==
    /\ program \in StrategyPrograms /\ Running
    /\ life[b] = "Alive" /\ SlotOf(program, f) # 0
    /\ LET m == heap[pimpl_[b]].m
           g == m.strategy_[SlotOf(program, f)]
       IN  IF g # "null"
           THEN /\ out = "stale"
                /\ last' = Rec(f, "ok", "none", StrategyResult(f, g, m.shape_), NoCalls)
           ELSE IF IsFunction(program)
           THEN /\ out = "stale"
                /\ last' = Rec(f, "threw", "none",
                               [NoRet EXCEPT !.fn = "bad_function_call"], NoCalls)
           ELSE /\ out # "stale"
                /\ last' = Rec(f, Res(FALSE, out = "abort"), "null_deref",
                               [NoRet EXCEPT !.fn = "junk"], NoCalls)
    /\ UNCHANGED <<program, life, buf, pimpl_, heap, cnt>>

\* the element's unique_ptr<Shape> is destroyed: delete through ~Shape()
SDestroy(b) ==
    /\ program \in StrategyPrograms /\ Running
    /\ life[b] = "Alive"
    /\ LET d     == DeletePtr(heap, pimpl_[b])
           c     == Canon([pimpl_ EXCEPT ![b] = Null], d.heap)
           calls == Calls(0, d.dtor, 0, d.delete)
       IN  /\ heap' = c.h /\ pimpl_' = c.p
           /\ cnt' = Bump(cnt, calls)
           /\ last' = Rec("destroy", "ok", d.ub, NoRet, calls)
    /\ life' = [life EXCEPT ![b] = "Destroyed"]
    /\ UNCHANGED <<program, buf>>

NextStrategy ==
    \/ \E b \in Boxes, in \in StrategyInputs(program), fail \in BOOLEAN : SConstruct(b, in, fail)
    \/ \E b \in Boxes, f \in {"draw", "serialize", "print"}, out \in UBOutcomes : SCall(b, f, out)
    \/ \E b \in Boxes : SDestroy(b)

InitStrategy ==
    /\ program \in StrategyPrograms
    /\ life = [b \in Boxes |-> "Uninitialized"]
    /\ buf = [b \in Boxes |-> Raw]
    /\ pimpl_ = [b \in Boxes |-> Null]
    /\ heap = [a \in Addrs |-> Raw]
    /\ last = Rec("none", "ok", "none", NoRet, NoCalls)
    /\ cnt = [models |-> 0, blocks |-> 0]

SpecStrategy == InitStrategy /\ [][NextStrategy]_vars

(***************************************************************************)
(* Prototype: Tasks/.../Prototype/Prototype.cpp.  The Animals live in      *)
(* dynamic storage; pimpl_[b] is the b-th std::unique_ptr<Animal> of the   *)
(* program (sheep, cloned_sheep, ...).                                     *)
(***************************************************************************)
\* a Sheep (the class has no data members)
Sheep == [type |-> "Sheep"]

\* Sheep::make_sound(), reached through the virtual Animal::make_sound()
make_sound(m) ==
    IF m.type = "Sheep"
    THEN [NoRet EXCEPT !.fn = "make_sound", !.type = "Sheep", !.color = "baa!"]
    ELSE [NoRet EXCEPT !.fn = "junk"]

\* a do_clone that hands out the object it was called on
do_clone_This(h, p, fail) ==
    [heap |-> h, p |-> p, ctor |-> 0, new |-> 0, delete |-> 0, threw |-> FALSE]

\* Sheep* Sheep::do_clone() const { return new Sheep{*this}; }
\* [heap, p, ctor, new, delete, threw]
do_clone(h, p, fail) ==
    IF fail
    THEN [heap |-> h, p |-> Null, ctor |-> 0, new |-> 0, delete |-> 0, threw |-> TRUE]
    ELSE [heap |-> [h EXCEPT ![FreshAddr(h)] = Live(h[p].m)], p |-> FreshAddr(h),
          ctor |-> 1, new |-> 1, delete |-> 0, threw |-> FALSE]

\* std::unique_ptr<Animal> sheep( std::make_unique<Sheep>() )
PMake(b, fail) ==
    /\ program = "Prototype" /\ Running
    /\ Fresh(b) /\ HasFree(heap)
    /\ IF fail
       THEN /\ last' = Rec("construct", "threw", "none",
                           [NoRet EXCEPT !.fn = "bad_alloc"], NoCalls)
            /\ UNCHANGED <<life, pimpl_, heap, cnt>>
       ELSE LET a == FreshAddr(heap)
                c == Canon([pimpl_ EXCEPT ![b] = a], [heap EXCEPT ![a] = Live(Sheep)])
            IN  /\ heap' = c.h /\ pimpl_' = c.p
                /\ life' = [life EXCEPT ![b] = "Alive"]
                /\ cnt' = Bump(cnt, Calls(1, 0, 1, 0))
                /\ last' = Rec("construct", "ok", "none", NoRet, Calls(1, 0, 1, 0))
    /\ UNCHANGED <<program, buf>>

\* std::unique_ptr<Animal> cloned_sheep( sheep->clone() ):
\* Animal::clone() wraps what the virtual do_clone() returns
PClone(b, o, fail) ==
    /\ program = "Prototype" /\ Running
    /\ Fresh(b) /\ life[o] = "Alive" /\ HasFree(heap)
    /\ LET u == do_clone(heap, pimpl_[o], fail)
           c == Canon([pimpl_ EXCEPT ![b] = u.p], u.heap)
       IN  IF u.threw
           THEN /\ last' = Rec("clone", "threw", "none",
                               [NoRet EXCEPT !.fn = "bad_alloc"], NoCalls)
                /\ UNCHANGED <<life, pimpl_, heap, cnt>>
           ELSE /\ heap' = c.h /\ pimpl_' = c.p
                /\ life' = [life EXCEPT ![b] = "Alive"]
                /\ cnt' = Bump(cnt, Calls(u.ctor, 0, u.new, 0))
                /\ last' = Rec("clone", "ok", "none", NoRet, Calls(u.ctor, 0, u.new, 0))
    /\ UNCHANGED <<program, buf>>

\* sheep->make_sound()
PMakeSound(b) ==
    /\ program = "Prototype" /\ Running
    /\ life[b] = "Alive"
    /\ last' = IF heap[pimpl_[b]].st = "live"
               THEN Rec("make_sound", "ok", "none", make_sound(heap[pimpl_[b]].m), NoCalls)
               ELSE Rec("make_sound", "ok", "use_after_free",
                        [NoRet EXCEPT !.fn = "junk"], NoCalls)
    /\ UNCHANGED <<program, life, buf, pimpl_, heap, cnt>>

\* ~unique_ptr<Animal>: delete through the virtual ~Animal()
PDestroy(b) ==
    /\ program = "Prototype" /\ Running
    /\ life[b] = "Alive"
    /\ LET d     == DeletePtr(heap, pimpl_[b])
           c     == Canon([pimpl_ EXCEPT ![b] = Null], d.heap)
           calls == Calls(0, d.dtor, 0, d.delete)
       IN  /\ heap' = c.h /\ pimpl_' = c.p
           /\ cnt' = Bump(cnt, calls)
           /\ last' = Rec("destroy", "ok", d.ub, NoRet, calls)
    /\ life' = [life EXCEPT ![b] = "Destroyed"]
    /\ UNCHANGED <<program, buf>>

NextPrototype ==
    \/ \E b \in Boxes, fail \in BOOLEAN : PMake(b, fail)
    \/ \E b, o \in Boxes, fail \in BOOLEAN : PClone(b, o, fail)
    \/ \E b \in Boxes : PMakeSound(b)
    \/ \E b \in Boxes : PDestroy(b)

InitPrototype ==
    /\ program = "Prototype"
    /\ life = [b \in Boxes |-> "Uninitialized"]
    /\ buf = [b \in Boxes |-> Raw]
    /\ pimpl_ = [b \in Boxes |-> Null]
    /\ heap = [a \in Addrs |-> Raw]
    /\ last = Rec("none", "ok", "none", NoRet, NoCalls)
    /\ cnt = [models |-> 0, blocks |-> 0]

SpecPrototype == InitPrototype /\ [][NextPrototype]_vars

(***************************************************************************)
(* Pimpl: Tasks/.../Bridge/Pimpl.cpp.  eh::Model10 holds a raw Impl*       *)
(* pimpl_ and declares only its default constructor: the copy and move     *)
(* operations and the destructor are the implicit ones, which copy the     *)
(* pointer and release nothing.  pimpl_[b] is the pimpl_ of car b.         *)
(***************************************************************************)
\* Impl(): engine_{ 100 }, battery_{ 80.0 }
Impl == [engine_ |-> 100, battery_ |-> 80]

\* Model10::Model10() : pimpl_{ new Impl{} }
MDefault(b, fail) ==
    /\ program = "Pimpl" /\ Running
    /\ Fresh(b) /\ HasFree(heap)
    /\ IF fail
       THEN /\ last' = Rec("construct", "threw", "none",
                           [NoRet EXCEPT !.fn = "bad_alloc"], NoCalls)
            /\ UNCHANGED <<life, pimpl_, heap, cnt>>
       ELSE LET a == FreshAddr(heap)
                c == Canon([pimpl_ EXCEPT ![b] = a], [heap EXCEPT ![a] = Live(Impl)])
            IN  /\ heap' = c.h /\ pimpl_' = c.p
                /\ life' = [life EXCEPT ![b] = "Alive"]
                /\ cnt' = Bump(cnt, Calls(1, 0, 1, 0))
                /\ last' = Rec("construct", "ok", "none", NoRet, Calls(1, 0, 1, 0))
    /\ UNCHANGED <<program, buf>>

\* the implicit Model10( Model10 const& ) and Model10( Model10&& ): the
\* pointer member is copied (op: "copy_construct" / "move_construct")
MConstructFrom(b, o, op) ==
    /\ program = "Pimpl" /\ Running
    /\ Fresh(b) /\ life[o] = "Alive"
    /\ LET c == Canon([pimpl_ EXCEPT ![b] = pimpl_[o]], heap)
       IN  heap' = c.h /\ pimpl_' = c.p
    /\ life' = [life EXCEPT ![b] = "Alive"]
    /\ last' = Rec(op, "ok", "none", NoRet, NoCalls)
    /\ UNCHANGED <<program, buf, cnt>>

\* the implicit operator=( Model10 const& ) and operator=( Model10&& ): the
\* pointer member is overwritten (op: "copy_assign" / "move_assign")
MAssignFrom(b, o, op) ==
    /\ program = "Pimpl" /\ Running
    /\ life[b] = "Alive" /\ life[o] = "Alive"
    /\ LET c == Canon([pimpl_ EXCEPT ![b] = pimpl_[o]], heap)
       IN  heap' = c.h /\ pimpl_' = c.p
    /\ last' = Rec(op, "ok", "none", NoRet, NoCalls)
    /\ UNCHANGED <<program, life, buf, cnt>>

\* void Model10::drive(): starts the engine and draws power from the
\* battery of the Impl at pimpl_ (ret.val: which Impl)
drive(b) ==
    /\ program = "Pimpl" /\ Running
    /\ life[b] = "Alive"
    /\ last' = Rec("drive", "ok", "none",
                   [NoRet EXCEPT !.fn = "drive", !.val = pimpl_[b]], NoCalls)
    /\ UNCHANGED <<program, life, buf, pimpl_, heap, cnt>>

\* the implicit ~Model10(): the pointer goes away, the Impl stays
MDestroy(b) ==
    /\ program = "Pimpl" /\ Running
    /\ life[b] = "Alive"
    /\ LET c == Canon([pimpl_ EXCEPT ![b] = Null], heap)
       IN  heap' = c.h /\ pimpl_' = c.p
    /\ life' = [life EXCEPT ![b] = "Destroyed"]
    /\ last' = Rec("destroy", "ok", "none", NoRet, NoCalls)
    /\ UNCHANGED <<program, buf, cnt>>

NextPimpl ==
    \/ \E b \in Boxes, fail \in BOOLEAN : MDefault(b, fail)
    \/ \E b, o \in Boxes, op \in {"copy_construct", "move_construct"} : MConstructFrom(b, o, op)
    \/ \E b, o \in Boxes, op \in {"copy_assign", "move_assign"} : MAssignFrom(b, o, op)
    \/ \E b \in Boxes : drive(b)
    \/ \E b \in Boxes : MDestroy(b)

InitPimpl ==
    /\ program = "Pimpl"
    /\ life = [b \in Boxes |-> "Uninitialized"]
    /\ buf = [b \in Boxes |-> Raw]
    /\ pimpl_ = [b \in Boxes |-> Null]
    /\ heap = [a \in Addrs |-> Raw]
    /\ last = Rec("none", "ok", "none", NoRet, NoCalls)
    /\ cnt = [models |-> 0, blocks |-> 0]

SpecPimpl == InitPimpl /\ [][NextPimpl]_vars

\* the Prototype and the Pimpl program, one of them per behaviour
InitIdioms == InitPrototype \/ InitPimpl

SpecIdioms == InitIdioms /\ [][NextPrototype \/ NextPimpl]_vars

(***************************************************************************)
(* The properties.                                                         *)
(***************************************************************************)
AllLive == \A b \in Boxes : life[b] = "Alive" => buf[b].st = "live"

\* C1: inline Shape: every box constructed and not yet destroyed holds one
\* live Model; a box stops holding one only as the target of a copy
\* assignment whose clone failed (whatever the source, the target included).
C1_OneLiveModel ==
    [][ (AllLive /\ ~(last'.op = "copy_assign" /\ last'.res = "threw")) => AllLive' ]_vars

\* C2: inline Shape: serialize, free_draw and copy construction never make a
\* virtual call on a buffer without a live Model (on a Valueless box they
\* are rejected).
C2_ValuelessRejected ==
    last.op \in {"serialize", "free_draw", "copy_construct"} => last.ub = "none"

\* C3: inline Shape: no operation runs a Model destructor on a buffer whose
\* Model was destroyed already (each Model is destroyed exactly once).
C3_DestroyedOnce == last.ub # "dtor_on_dead"

\* C4: inline Shape: a copy assignment whose clone throws passes the
\* exception to the caller, has destroyed the target's Model (one destructor
\* call, no Model constructed: the target is Valueless) and leaves the
\* source and every other box as they were.
C4_FailedAssign ==
    [][ \A b, o \in Boxes :
          (/\ last'.op = "copy_assign"
           /\ \E out1, out2 \in UBOutcomes : CopyAssign(b, o, TRUE, out1, out2)) =>
             /\ last'.res = "threw"
             /\ buf[b].st = "live" /\ buf'[b] = Dead(buf[b].m)
             /\ last'.calls.dtor = 1 /\ last'.calls.ctor = 0
             /\ o # b /\ buf'[o] = buf[o] /\ buf[o].st = "live"
             /\ \A c \in Boxes \ {b} : buf'[c] = buf[c]
             /\ life' = life ]_vars

C4_Witness ==
    /\ last.op = "copy_assign" /\ last.res = "threw"
    /\ \E b, o \in Boxes : /\ life[b] = "Alive" /\ buf[b].st = "dead"
                           /\ life[o] = "Alive" /\ buf[o].st = "live"

\* C5: round trip: a Shape constructed from (shape, drawer, serializer)
\* returns from serialize() what the serializer returns for the shape, and
\* free_draw on it does what the drawer does with the shape; for the inline
\* Shape and for the heap Shape.
C5_RoundTrip ==
    [][ /\ \A b \in Boxes, in \in ConstructInputs :
             (last'.op = "construct" /\ Construct(b, in, FALSE) /\ life'[b] = "Alive") =>
                /\ Dispatch(buf'[b], "serialize", "stale") =
                      [ret |-> CallSerializer(in[3], in[1]), ub |-> "none", abort |-> FALSE]
                /\ Dispatch(buf'[b], "free_draw", "stale") =
                      [ret |-> CallDrawer(in[2], in[1]), ub |-> "none", abort |-> FALSE]
        /\ \A b \in Boxes, in \in HeapInputs :
             (last'.op = "construct" /\ HConstruct(b, in, "none")) =>
                /\ HDispatch(heap', pimpl_'[b], "serialize", "stale") =
                      [ret |-> CallSerializer(in[3], in[1]), ub |-> "none", abort |-> FALSE]
                /\ HDispatch(heap', pimpl_'[b], "free_draw", "stale") =
                      [ret |-> CallDrawer(in[2], in[1]), ub |-> "none", abort |-> FALSE]
        /\ \A b \in Boxes :
             /\ (/\ last'.op = "serialize" /\ buf[b].st = "live"
                 /\ \E out \in UBOutcomes : Serialize(b, FALSE, out))
                   => last'.ret = CallSerializer(buf[b].m.serializer_, buf[b].m.shape_)
             /\ (/\ last'.op = "free_draw" /\ pimpl_[b] # Null
                 /\ \E out \in UBOutcomes : HFreeDraw(b, FALSE, out))
                   => last'.ret = CallDrawer(heap[pimpl_[b]].m.drawer_,
                                             heap[pimpl_[b]].m.shape_) ]_vars

C5_Witness ==
    /\ last.op = "serialize" /\ last.res = "ok" /\ last.ub = "none"
    /\ last.ret = CallSerializer("FSSerializer", Square(12))
    /\ \E b \in Boxes : life[b] = "Alive" /\ Owned(b) = Live(Model(Square(12), "GLDrawer_green",
                                                                 "FSSerializer"))

\* an operation on box b: its destruction, or the copy assignment of a
\* different box to it
OperationOn(b) ==
    \/ /\ last'.op = "destroy"
       /\ \/ \E out \in UBOutcomes : Destroy(b, out)
          \/ HDestroy(b)
          \/ T1Destroy(b)
    \/ /\ last'.op = "copy_assign"
       /\ \E o \in Boxes \ {b} :
             \/ \E t \in BOOLEAN, out1, out2 \in UBOutcomes : CopyAssign(b, o, t, out1, out2)
             \/ \E f \in Fails, out \in UBOutcomes : HCopyAssign(b, o, f, out)
             \/ \E f \in Fails : T1CopyAssign(b, o, f)

\* C6: copy independence: when b2 holds a copy of b1's Model, the
\* destruction of b1 and the copy assignment of a different box to b1 leave
\* b2's Model (shape and strategies, hence what draw and serialize give) as
\* it was; and the same with b1 and b2 exchanged.
C6_CopyIndependence ==
    [][ \A b1 \in Boxes :
          LET Copies == {b2 \in Boxes \ {b1} : life[b2] = "Alive" /\ Owned(b2) = Owned(b1)}
          IN  ( /\ life[b1] = "Alive" /\ Owned(b1).st = "live"
                /\ Copies # {}
                /\ OperationOn(b1) )
              => \A b2 \in Copies : /\ life'[b2] = "Alive"
                                    /\ Owned(b2)' = Owned(b2) ]_vars

C6_Witness ==
    /\ last.op = "copy_assign" /\ last.res = "ok" /\ last.ub = "none"
    /\ \E b1, b2, b3 \in Boxes :
          /\ life[b1] = "Alive" /\ life[b2] = "Alive" /\ life[b3] = "Alive"
          /\ Owned(b2).st = "live" /\ Owned(b1).st = "live"
          /\ Owned(b1) = Owned(b3) /\ Owned(b2) # Owned(b1)

\* C7: inline Shape: a construction is accepted exactly when the Model's
\* size is at most 128 and its alignment at most 16; a rejected one writes
\* nothing to any buffer and no Shape comes into existence.
C7_Capacity ==
    [][ \A b \in Boxes, in \in ConstructInputs :
          Construct(b, in, FALSE) =>
             /\ (last'.res = "rejected") <=>
                   ~(SizeofModel(in[1], in[2]) <= 128 /\ AlignofModel(in[1], in[2]) <= 16)
             /\ last'.res = "rejected" => (buf' = buf /\ life' = life /\ cnt' = cnt)
             /\ last'.res # "rejected" => (life'[b] = "Alive" /\ buf'[b].st = "live") ]_vars

C7_Witness ==
    /\ last.op = "construct" /\ last.res = "rejected"
    /\ \E b \in Boxes :
          /\ life[b] = "Alive" /\ buf[b].st = "live"
          /\ SizeofModel(buf[b].m.shape_, buf[b].m.drawer_) = 128
          /\ AlignofModel(buf[b].m.shape_, buf[b].m.drawer_) = 16

\* no clone has failed and no operation had undefined behaviour so far
FailureFree == last.ub = "none" /\ last.res # "abort" /\ AllLive

\* C8: inline Shape, failure-free sequences: a construction and a copy
\* construction construct one Model, a copy assignment destroys one and
\* constructs one, a destruction destroys one; so the Models constructed and
\* not yet destroyed are those of the Shapes alive (none once all Shapes are
\* destroyed: as many destructor calls as constructions), and no buffer of a
\* destroyed Shape still holds a Model.
C8_CallsBalance ==
    FailureFree =>
       /\ cnt.models = Cardinality({b \in Boxes : life[b] = "Alive"})
       /\ \A b \in Boxes : life[b] = "Destroyed" => buf[b].st = "raw"
       /\ (last.op \in {"construct", "copy_construct"} /\ last.res = "ok")
             => (last.calls.ctor = 1 /\ last.calls.dtor = 0)
       /\ (last.op = "copy_assign" /\ last.res = "ok")
             => (last.calls.ctor = 1 /\ last.calls.dtor = 1)
       /\ last.op = "destroy" => (last.calls.ctor = 0 /\ last.calls.dtor = 1)

C8_Witness ==
    /\ FailureFree /\ last.op = "destroy"
    /\ \A b \in Boxes : life[b] = "Destroyed"
    /\ cnt.models = 0

\* C9: inline Shape: no operation allocates: the operator new and operator
\* delete calls of every operation are 0, no block is ever outstanding.
C9_NoHeapTraffic ==
    /\ last.calls.new = 0 /\ last.calls.delete = 0
    /\ cnt.blocks = 0

C9_Witness ==
    /\ last.op = "copy_assign" /\ last.res = "ok" /\ last.ub = "none"
    /\ \A b \in Boxes : life[b] = "Alive" /\ buf[b].st = "live"

\* C10: heap Shape of TypeErasure_2: a construction, a copy construction and
\* a copy assignment that return have allocated exactly one Model; a move
\* construction and a move assignment allocate none.
C10_OneAllocation ==
    /\ (last.op \in {"construct", "copy_construct", "copy_assign"}
           /\ last.res = "ok" /\ last.ub = "none") => last.calls.new = 1
    /\ last.op \in {"move_construct", "move_assign"} => last.calls.new = 0

C10_Witness ==
    /\ last.op = "move_assign" /\ last.calls.delete = 1
    /\ \E b \in Boxes : life[b] = "Alive" /\ pimpl_[b] = Null
    /\ cnt.blocks = NBoxes - 1

\* every alive Shape reaches a live Model (inline or heap)
AllOwnedLive == \A b \in Boxes : life[b] = "Alive" => Owned(b).st = "live"

\* a step leaves every Shape but b, and its Model, as it was
OthersKept(b) ==
    \A c \in Boxes \ {b} : life'[c] = life[c] /\ Owned(c)' = Owned(c)

\* C11: the inline Shape and the heap Shape have the same contract: from a
\* state where every alive Shape holds a live Model, each operation that
\* raises nothing acts on the Models held in the same way in both programs
\* (construction stores the Model of its arguments, copy construction and
\* copy assignment from any Shape store an equal copy of the source's Model,
\* destruction ends the Shape, free_draw and serialize return what the held
\* Model gives and change nothing), so that the same sequence run on both
\* gives the same result at every step.
C11_SameContract ==
    [][ AllOwnedLive =>
          \A b \in Boxes :
            /\ \A in \in {i \in ConstructInputs : StaticAssertsHold(i[1], i[2])} :
                 (Construct(b, in, FALSE) \/ HConstruct(b, in, "none")) =>
                    /\ life'[b] = "Alive"
                    /\ Owned(b)' = Live(Model(in[1], in[2], in[3]))
                    /\ OthersKept(b)
            /\ \A o \in Boxes :
                 /\ ( \/ \E out \in UBOutcomes : CopyConstruct(b, o, FALSE, out)
                      \/ \E out \in UBOutcomes : HCopyConstruct(b, o, "none", out) ) =>
                       /\ life'[b] = "Alive"
                       /\ Owned(b)' = Owned(o)
                       /\ OthersKept(b)
                 /\ ( \/ \E out1, out2 \in UBOutcomes : CopyAssign(b, o, FALSE, out1, out2)
                      \/ \E out \in UBOutcomes : HCopyAssign(b, o, "none", out) ) =>
                       /\ life'[b] = "Alive"
                       /\ Owned(b)' = Owned(o)
                       /\ OthersKept(b)
            /\ ((\E out \in UBOutcomes : Destroy(b, out)) \/ HDestroy(b)) =>
                    /\ life'[b] = "Destroyed"
                    /\ Owned(b)' = Raw
                    /\ OthersKept(b)
            /\ ( \/ \E out \in UBOutcomes : Serialize(b, FALSE, out)
                 \/ \E out \in UBOutcomes : HSerialize(b, FALSE, out) ) =>
                    /\ last'.res = "ok" /\ last'.ret = do_serialize(Owned(b).m)
                    /\ life' = life /\ Owned(b)' = Owned(b) /\ OthersKept(b)
            /\ ( \/ \E out \in UBOutcomes : FreeDraw(b, FALSE, out)
                 \/ \E out \in UBOutcomes : HFreeDraw(b, FALSE, out) ) =>
                    /\ last'.res = "ok" /\ last'.ret = do_draw(Owned(b).m)
                    /\ life' = life /\ Owned(b)' = Owned(b) /\ OthersKept(b) ]_vars

\* C12: heap Shape: a construction in which nothing throws succeeds whatever
\* the size of the Model, also for a Model over the 128 bytes (or the
\* alignment 16) that the inline Shape rejects: the Shape is alive and holds
\* the Model of its arguments.
C12_NoCapacityLimit ==
    [][ \A b \in Boxes, in \in HeapInputs :
          HConstruct(b, in, "none") =>
             /\ last'.res = "ok" /\ last'.ub = "none"
             /\ life'[b] = "Alive"
             /\ Owned(b)' = Live(Model(in[1], in[2], in[3])) ]_vars

C12_Witness ==
    /\ program = "TE_2" /\ last.op = "construct" /\ last.res = "ok"
    /\ \E b \in Boxes :
          /\ life[b] = "Alive" /\ pimpl_[b] # Null /\ heap[pimpl_[b]].st = "live"
          /\ SizeofModel(heap[pimpl_[b]].m.shape_, heap[pimpl_[b]].m.drawer_) = 256
          /\ ~StaticAssertsHold(heap[pimpl_[b]].m.shape_, heap[pimpl_[b]].m.drawer_)
          /\ \A c \in Boxes : c > b => life[c] = "Uninitialized"

\* C13: inline Shape: when the serializer (the drawer) throws during
\* serialize (free_draw), the caller gets that very exception, and the
\* Shape still holds the same Model; nothing else changes either.
C13_ErrorPropagates ==
    [][ \A b \in Boxes :
          /\ (\E out \in UBOutcomes : Serialize(b, TRUE, out)) =>
                /\ last'.res = "threw"
                /\ last'.ret = Raise(buf[b].m.serializer_, buf[b].m.shape_)
                /\ life'[b] = "Alive" /\ buf'[b] = buf[b] /\ buf[b].st = "live"
                /\ buf' = buf /\ life' = life /\ cnt' = cnt
          /\ (\E out \in UBOutcomes : FreeDraw(b, TRUE, out)) =>
                /\ last'.res = "threw"
                /\ last'.ret = Raise(buf[b].m.drawer_, buf[b].m.shape_)
                /\ life'[b] = "Alive" /\ buf'[b] = buf[b] /\ buf[b].st = "live"
                /\ buf' = buf /\ life' = life /\ cnt' = cnt ]_vars

C13_Witness ==
    /\ program = "SBO_1" /\ last.op = "free_draw" /\ last.res = "threw"
    /\ last.ret = Raise("GLDrawer_green", Square(12))
    /\ \E b \in Boxes :
          life[b] = "Alive" /\ buf[b] = Live(Model(Square(12), "GLDrawer_green", "FSSerializer"))

\* C14: inline Shape: free_draw and serialize on a Shape holding a Model
\* make no copy of the stored shape (no Model is constructed or destroyed,
\* the strategy gets the shape by reference), and leave the Shape's Model
\* and every other Shape as they were, whether the strategy returns or
\* throws.
C14_ApplyChangesNothing ==
    [][ \A b \in Boxes :
          ( /\ buf[b].st = "live"
            /\ \E t \in BOOLEAN, out \in UBOutcomes :
                  Serialize(b, t, out) \/ FreeDraw(b, t, out) )
          => /\ last'.calls.copies = 0
             /\ last'.calls.ctor = 0 /\ last'.calls.dtor = 0
             /\ buf' = buf /\ life' = life /\ cnt' = cnt ]_vars

C14_Witness ==
    /\ program = "SBO_1" /\ last.op = "serialize" /\ last.res = "ok"
    /\ last.calls.copies = 0
    /\ \A b \in Boxes : life[b] = "Alive" /\ buf[b].st = "live"

\* the state of Shape b in the lifecycle of an inline Shape
BoxState(b) ==
    CASE life[b] = "Uninitialized" -> "Uninitialized"
      [] life[b] = "Destroyed"     -> "Destroyed"
      [] buf[b].st = "live"        -> "Constructed"
      [] OTHER                     -> "Valueless"

\* some operation of the inline Shape is executed on Shape b (as the object
\* or as the source of a copy)
ExecutedOn(b) ==
    \/ \E in \in ConstructInputs, t \in BOOLEAN : Construct(b, in, t)
    \/ \E out \in UBOutcomes : Destroy(b, out)
    \/ \E t \in BOOLEAN, out \in UBOutcomes : Serialize(b, t, out) \/ FreeDraw(b, t, out)
    \/ \E o \in Boxes, t \in BOOLEAN, out \in UBOutcomes :
          CopyConstruct(b, o, t, out) \/ CopyConstruct(o, b, t, out)
    \/ \E o \in Boxes, t \in BOOLEAN, out1, out2 \in UBOutcomes :
          CopyAssign(b, o, t, out1, out2) \/ CopyAssign(o, b, t, out1, out2)

\* C15: inline Shape: every Shape moves only along Uninitialized ->
\* Constructed -> (Constructed)* -> Valueless (only by a copy assignment
\* whose clone failed) -> Constructed (by an assignment) -> Destroyed; a
\* Destroyed Shape stays Destroyed and no operation is executed on it.
C15_Lifecycle ==
    [][ \A b \in Boxes :
          /\ BoxState(b)' # BoxState(b) =>
               \/ /\ BoxState(b) = "Uninitialized" /\ BoxState(b)' = "Constructed"
                  /\ last'.op \in {"construct", "copy_construct"}
               \/ /\ BoxState(b) = "Constructed" /\ BoxState(b)' = "Valueless"
                  /\ last'.op = "copy_assign" /\ last'.res = "threw"
               \/ /\ BoxState(b) = "Valueless" /\ BoxState(b)' = "Constructed"
                  /\ last'.op = "copy_assign"
               \/ /\ BoxState(b) \in {"Constructed", "Valueless"}
                  /\ BoxState(b)' = "Destroyed"
                  /\ last'.op = "destroy"
          /\ BoxState(b) = "Destroyed" => ~ExecutedOn(b) ]_vars

\* C16: inline Shape: a copy construction whose clone throws passes the
\* exception to the caller; the destination never becomes a Shape (its
\* buffer is as before, no Model was constructed in it, no destructor runs
\* on it) and the source and every other Shape are unchanged.
C16_FailedCopyConstruct ==
    [][ \A b, o \in Boxes :
          (\E out \in UBOutcomes : CopyConstruct(b, o, TRUE, out)) =>
             /\ last'.res = "threw"
             /\ life'[b] = "Uninitialized" /\ buf'[b] = buf[b] /\ buf'[b].st = "raw"
             /\ last'.calls.ctor = 0 /\ last'.calls.dtor = 0
             /\ buf[o].st = "live" /\ buf'[o] = buf[o] /\ life'[o] = "Alive"
             /\ buf' = buf /\ life' = life /\ cnt' = cnt ]_vars

C16_Witness ==
    /\ program = "SBO_1" /\ last.op = "copy_construct" /\ last.res = "threw"
    /\ \E b, o \in Boxes : /\ life[b] = "Uninitialized" /\ buf[b].st = "raw"
                           /\ life[o] = "Alive" /\ buf[o].st = "live"

\* C17: drawAllShapes calls free_draw on every element of the sequence
\* exactly once, in insertion order, and serializeAllShapes appends the
\* serialize() result of every element in insertion order (when every
\* element holds a Model and no strategy throws).
C17_InsertionOrder ==
    [][ AllLive =>
          /\ (\E out \in UBOutcomes : drawAllShapes(0, out)) =>
                /\ last'.res = "ok"
                /\ last'.ret = [i \in 1 .. Len(shapes) |-> do_draw(buf[shapes[i]].m)]
          /\ (\E out \in UBOutcomes : serializeAllShapes(0, out)) =>
                /\ last'.res = "ok"
                /\ last'.ret = [i \in 1 .. Len(shapes) |-> do_serialize(buf[shapes[i]].m)]
          /\ \A i, j \in 1 .. Len(shapes) : i < j => shapes[i] < shapes[j] ]_vars

C17_Witness ==
    /\ program = "SBO_1" /\ last.op = "serializeAllShapes" /\ last.res = "ok"
    /\ last.ret = << CallSerializer("FSSerializer", Circle(41)),
                     CallSerializer("FSSerializer", Square(12)) >>

\* C18: no aliasing of storage.  After every step, no two live heap Shapes
\* hold a pointer to the same model; and the buffers of the inline Shapes
\* are separate storage: a member function of a Shape writes the buffer of
\* at most one Shape (a growing vector writes those of the elements it
\* builds and destroys).
C18_NoAliasing ==
    [][ /\ \A b1, b2 \in Boxes :
              (b1 # b2 /\ life'[b1] = "Alive" /\ life'[b2] = "Alive" /\ pimpl_'[b1] # Null)
                  => pimpl_'[b1] # pimpl_'[b2]
        /\ (program = "SBO_1" /\ last'.op # "emplace_back")
              => Cardinality({b \in Boxes : buf'[b] # buf[b]}) <= 1 ]_vars

C18_Witness ==
    /\ program = "TE_2" /\ last.op = "move_assign" /\ last.ub = "none"
    /\ \E b1, b2, b3 \in Boxes :
          /\ life[b1] = "Alive" /\ life[b2] = "Alive" /\ life[b3] = "Alive"
          /\ pimpl_[b1] = Null
          /\ pimpl_[b2] # Null /\ pimpl_[b3] # Null /\ pimpl_[b2] # pimpl_[b3]
          /\ heap[pimpl_[b2]].m = heap[pimpl_[b3]].m

\* C19: heap variant resource invariant.  Every live heap Shape owns one
\* live model allocation: its pimpl_ is non-null and points to a live Model
\* (also after it was the source of a move), and no call of free_draw,
\* serialize or a copy dereferences a null pointer.
C19_PimplNonNull ==
    program \in {"TE_2", "TE_1"} =>
        /\ \A b \in Boxes :
              life[b] = "Alive" => (pimpl_[b] # Null /\ heap[pimpl_[b]].st = "live")
        /\ last.ub # "null_deref"

\* C20: the copy assignment of the inline Shape never calls clone on a
\* Model whose destructor has already run, whatever the target and the
\* source are; the self-assignment s = s of a Shape that holds a Model
\* leaves it holding a live Model equal to the one it held.
C20_CloneFromLive ==
    [][ \A b, o \in Boxes :
          (/\ last'.op = "copy_assign"
           /\ \E t \in BOOLEAN, out1, out2 \in UBOutcomes : CopyAssign(b, o, t, out1, out2))
          => /\ last'.ub # "clone_on_dead"
             /\ (b = o /\ Owned(b) /\ last'.res = "ok") => buf'[b] = buf[b] ]_vars

\* C21: a successful copy assignment of the inline Shape from a different
\* Shape: the destructor of the target's old Model runs first and once, then
\* the source's Model is cloned into the buffer (one constructor call); the
\* target then holds a live Model of the source's type and value and the
\* source is as it was.
C21_AssignDestroysThenClones ==
    [][ \A b, o \in Boxes :
          (/\ last'.op = "copy_assign" /\ b # o
           /\ buf[b].st = "live" /\ buf[o].st = "live"
           /\ \E out1, out2 \in UBOutcomes : CopyAssign(b, o, FALSE, out1, out2))
          => /\ last'.res = "ok" /\ last'.ub = "none"
             /\ last'.calls.dtor = 1 /\ last'.calls.ctor = 1
             /\ cnt'.models = cnt.models
             /\ LET emptied == DestroyAt(buf[b], "stale").cell
                IN  /\ emptied = Dead(buf[b].m)
                    /\ buf'[b] = CloneAt(buf[o], emptied, FALSE, "stale").cell
             /\ buf'[b] = Live(buf[o].m)
             /\ buf'[o] = buf[o] ]_vars

C21_Witness ==
    /\ program = "SBO_1" /\ last.op = "copy_assign" /\ last.res = "ok" /\ last.ub = "none"
    /\ last.calls.dtor = 1 /\ last.calls.ctor = 1
    /\ \E b, o \in Boxes :
          /\ b # o /\ life[b] = "Alive" /\ life[o] = "Alive"
          /\ buf[b] = buf[o] /\ buf[b].st = "live"

\* C22: the copy assignment of the heap Shape is strongly exception safe,
\* with copy-and-swap (TE_2) and with the clone evaluated before the pointer
\* is replaced (TE_1): when the clone throws, the exception reaches the
\* caller, every Shape (target and source included) keeps its pointer and
\* its Model, and every block allocated has been released.
C22_HeapAssignStrong ==
    [][ \A b, o \in Boxes, fail \in Fails \ {"none"} :
          (/\ last'.op = "copy_assign" /\ pimpl_[o] # Null
           /\ life[b] = "Alive" /\ life[o] = "Alive"
           /\ \/ HCopyAssign(b, o, fail, "stale")
              \/ T1CopyAssign(b, o, fail))
          => /\ last'.res = "threw" /\ last'.ub = "none"
             /\ pimpl_' = pimpl_ /\ heap' = heap /\ life' = life
             /\ last'.calls.new = last'.calls.delete
             /\ last'.calls.ctor = 0 /\ last'.calls.dtor = 0
             /\ cnt' = cnt ]_vars

C22_Witness ==
    /\ program = "TE_2" /\ last.op = "copy_assign" /\ last.res = "threw"
    /\ last.calls.new = 1 /\ last.calls.delete = 1
    /\ \E b, o \in Boxes :
          /\ b # o /\ life[b] = "Alive" /\ life[o] = "Alive"
          /\ pimpl_[b] # Null /\ pimpl_[o] # Null
          /\ heap[pimpl_[b]].st = "live" /\ heap[pimpl_[o]].st = "live"
          /\ heap[pimpl_[b]].m # heap[pimpl_[o]].m

\* the number of live Models on the heap h
LiveBlocks(h) == Cardinality({a \in Addrs : h[a].st = "live"})

\* C23: a successful copy assignment of the heap Shape, for every target and
\* source, the same Shape included: the target then holds a Model of its
\* own, equal to the source's in type and value; the Model the target held
\* has been released exactly once; the source still owns its Model.
C23_HeapAssign ==
    [][ \A b, o \in Boxes :
          (/\ last'.op = "copy_assign" /\ pimpl_[o] # Null /\ pimpl_[b] # Null
           /\ life[b] = "Alive" /\ life[o] = "Alive"
           /\ \/ HCopyAssign(b, o, "none", "stale")
              \/ T1CopyAssign(b, o, "none"))
          => /\ last'.res = "ok" /\ last'.ub = "none"
             /\ pimpl_'[b] # Null /\ heap'[pimpl_'[b]] = Live(heap[pimpl_[o]].m)
             /\ \A c \in Boxes \ {b} : life[c] = "Alive" => pimpl_'[c] # pimpl_'[b]
             /\ pimpl_'[o] # Null /\ heap'[pimpl_'[o]] = heap[pimpl_[o]]
             /\ last'.calls = Calls(1, 1, 1, 1)
             /\ LiveBlocks(heap') = LiveBlocks(heap)
             /\ cnt' = cnt ]_vars

C23_Witness ==
    /\ program = "TE_1" /\ last.op = "copy_assign" /\ last.res = "ok" /\ last.ub = "none"
    /\ last.calls = Calls(1, 1, 1, 1)
    /\ \E b, o \in Boxes :
          /\ b # o /\ life[b] = "Alive" /\ life[o] = "Alive"
          /\ pimpl_[b] # Null /\ pimpl_[o] # Null /\ pimpl_[b] # pimpl_[o]
          /\ heap[pimpl_[b]] = heap[pimpl_[o]] /\ heap[pimpl_[b]].st = "live"
    /\ LiveBlocks(heap) = 3

\* C24: clone keeps the concrete Model type and its value: a Shape copied
\* from a Shape holding Model(shape, drawer, serializer) holds a Model with
\* the same shape, drawer and serializer, and free_draw and serialize give
\* the same for both; for the inline Shape and for the heap Shapes.  (By
\* induction a copy of a copy equals the original.)
C24_CloneKeepsType ==
    [][ \A b, o \in Boxes :
          /\ (/\ last'.op = "copy_construct" /\ buf[o].st = "live"
              /\ \E out \in UBOutcomes : CopyConstruct(b, o, FALSE, out))
             => /\ life'[b] = "Alive" /\ buf'[b] = Live(buf[o].m)
                /\ \A f \in {"serialize", "free_draw"} :
                      Dispatch(buf'[b], f, "stale") = Dispatch(buf'[o], f, "stale")
          /\ (/\ last'.op = "copy_construct" /\ pimpl_[o] # Null
              /\ life[b] = "Uninitialized" /\ life[o] = "Alive"
              /\ \/ HCopyConstruct(b, o, "none", "stale")
                 \/ T1CopyConstruct(b, o, "none"))
             => /\ life'[b] = "Alive" /\ pimpl_'[b] # Null
                /\ heap'[pimpl_'[b]] = Live(heap[pimpl_[o]].m)
                /\ \A f \in {"serialize", "free_draw"} :
                      HDispatch(heap', pimpl_'[b], f, "stale")
                         = HDispatch(heap', pimpl_'[o], f, "stale") ]_vars

\* a copy of a copy: three Shapes with the Model of the first
C24_Witness ==
    /\ last.op = "copy_construct" /\ last.res = "ok" /\ last.ub = "none"
    /\ \A b \in Boxes : /\ life[b] = "Alive"
                        /\ Owned(b) = Live(Model(Square(12), "GLDrawer_green",
                                                 "FSSerializer"))

\* C25: the inline Shape has no move operations, so a request to move one
\* (std::move, or the relocation of the elements when the vector grows)
\* runs the copy constructor: the destination gets a clone of its own, the
\* source keeps its Model unchanged until it is destroyed itself, and after
\* each emplace_back every element of the vector holds a live Model (the
\* old elements in their order, then the new one).
C25_MoveIsCopy ==
    [][ /\ \A b, o \in Boxes :
             (/\ last'.op = "copy_construct" /\ buf[o].st = "live"
              /\ \E out \in UBOutcomes : CopyConstruct(b, o, FALSE, out))
             => /\ buf'[b] = Live(buf[o].m) /\ b # o
                /\ life'[o] = "Alive" /\ buf'[o] = buf[o]
                /\ last'.calls = Calls(1, 0, 0, 0)
        /\ \A in \in ConstructInputs, grow \in BOOLEAN :
             (/\ last'.op = "emplace_back" /\ AllLive
              /\ emplace_back(in, grow, FALSE, 0, "stale")
              /\ StaticAssertsHold(in[1], in[2]))
             => /\ last'.res = "ok" /\ last'.ub = "none"
                /\ Len(shapes') = Len(shapes) + 1
                /\ \A i \in 1 .. Len(shapes') : buf'[shapes'[i]].st = "live"
                /\ \A i \in 1 .. Len(shapes) : buf'[shapes'[i]].m = buf[shapes[i]].m
                /\ buf'[shapes'[Len(shapes')]].m = Model(in[1], in[2], in[3])
                /\ grow => /\ last'.calls = Calls(Len(shapes) + 1, Len(shapes), 0, 0)
                           /\ \A i \in 1 .. Len(shapes) :
                                 /\ shapes'[i] # shapes[i]
                                 /\ life'[shapes[i]] = "Destroyed" ]_vars

\* the vector has grown: the Circle was copied to the new storage and
\* destroyed, the Square was constructed behind it
C25_Witness ==
    /\ program = "SBO_1" /\ last.op = "emplace_back" /\ last.res = "ok"
    /\ last.calls = Calls(2, 1, 0, 0)
    /\ Len(shapes) = 2
    /\ buf[shapes[1]] = Live(Model(Circle(41), "lambda80_a16", "FSSerializer"))
    /\ buf[shapes[2]] = Live(Model(Square(12), "GLDrawer_green", "FSSerializer"))
    /\ life[1] = "Destroyed"

C27_StrategiesNonNull ==
    [][ /\ \A b \in Boxes, in \in StrategyInputs(program) :
             (last'.op = "construct" /\ SConstruct(b, in, FALSE)) =>
                LET nulls == {i \in 1 .. Len(in[2]) : in[2][i] = "null"}
                IN  IF nulls = {}
                    THEN /\ last'.res = "ok" /\ life'[b] = "Alive"
                         /\ heap'[pimpl_'[b]].st = "live"
                    ELSE /\ last'.res = "threw"
                         /\ \E i \in nulls :
                               /\ \A j \in nulls : i <= j
                               /\ last'.ret = InvalidArgument(Slots(program)[i])
                         /\ life' = life /\ pimpl_' = pimpl_ /\ heap' = heap /\ cnt' = cnt
        /\ \A b \in Boxes :
             life'[b] = "Alive" =>
                /\ pimpl_'[b] # Null /\ heap'[pimpl_'[b]].st = "live"
                /\ \A i \in 1 .. Len(Slots(program)) :
                      heap'[pimpl_'[b]].m.strategy_[i] # "null"
        /\ last'.op \in {"draw", "serialize", "print"} =>
              /\ last'.ub = "none" /\ last'.res = "ok"
              /\ last'.ret.color # "null" ]_vars

\* a shape was refused for its null serialization strategy while a shape
\* with its three strategies exists
C27_Witness ==
    /\ program = "MultipleStrategies_1"
    /\ last.op = "construct" /\ last.res = "threw"
    /\ last.ret = InvalidArgument("serialization")
    /\ life[1] = "Alive" /\ life[2] = "Uninitialized"
    /\ heap[pimpl_[1]].m.strategy_ = <<"GLDrawer", "FSSerializer", "JLPrinter">>

\* C28: Prototype.  clone() called through an Animal that is a Sheep gives
\* a newly allocated Sheep, distinct from the original and owned by the
\* caller alone; the original is unchanged, and both make the same sound.
C28_PrototypeClone ==
    [][ \A b, o \in Boxes :
          (last'.op = "clone" /\ PClone(b, o, FALSE))
          => /\ last'.res = "ok" /\ last'.calls = Calls(1, 0, 1, 0)
             /\ life'[b] = "Alive" /\ pimpl_'[b] # Null
             /\ heap'[pimpl_'[b]] = Live(Sheep)
             /\ \A c \in Boxes \ {b} : life'[c] = "Alive" => pimpl_'[c] # pimpl_'[b]
             /\ LiveBlocks(heap') = LiveBlocks(heap) + 1
             /\ life'[o] = "Alive" /\ pimpl_'[o] # Null
             /\ heap'[pimpl_'[o]] = heap[pimpl_[o]]
             /\ make_sound(heap'[pimpl_'[b]].m) = make_sound(heap'[pimpl_'[o]].m)
             /\ make_sound(heap'[pimpl_'[b]].m).color = "baa!" ]_vars

\* the cloned sheep makes its sound, the original is still there
C28_Witness ==
    /\ program = "Prototype" /\ last.op = "make_sound" /\ last.ub = "none"
    /\ last.ret = make_sound(Sheep)
    /\ life[1] = "Alive" /\ life[2] = "Alive" /\ pimpl_[1] # pimpl_[2]
    /\ heap[pimpl_[1]] = Live(Sheep) /\ heap[pimpl_[2]] = Live(Sheep)
    /\ cnt.blocks = 2

\* C29: Pimpl ownership.  After any sequence of default construction, copy
\* and move construction, copy and move assignment of Model10 objects, no
\* two live Model10 objects point to the same Impl (so drive() on one car
\* never uses the engine and battery of another).
C29_ImplNotShared ==
    program = "Pimpl" =>
        \A b1, b2 \in Boxes :
            (b1 # b2 /\ life[b1] = "Alive" /\ life[b2] = "Alive") => pimpl_[b1] # pimpl_[b2]

\* C30: Pimpl release.  When all Model10 objects have been destroyed, every
\* Impl a Model10 constructor allocated has been released: the number of
\* Impl deallocations equals the number of allocations (no block is left).
C30_ImplReleased ==
    (program = "Pimpl" /\ \A b \in Boxes : life[b] # "Alive") =>
        /\ cnt.blocks = 0
        /\ LiveBlocks(heap) = 0

====
